---- MODULE Spec2Model ----
(***************************************************************************)
(* A model of cclint's reference-tree builder and scope discoverer         *)
(* (internal/analyzer: BuildTree, processFile, extractReferences,          *)
(* resolveFilePath, DiscoverScopes, collectReachableNodes).                *)
(*                                                                         *)
(* Strings are sequences of tokens: "/" , "@", ".", "..", ".md", "*" and   *)
(* atoms (runs of ordinary characters).  A path is such a string.          *)
(***************************************************************************)
EXTENDS Naturals, Sequences, FiniteSets, TLC

VARIABLES
    disk,        \* the file system: clean absolute path -> file
    cfg,         \* the agent profile (agent.Config)
    phase,       \* where the caller is: "init", "building", "built", "error", "discovering"
    err,         \* the error BuildTree returned ("" for nil)
    root,        \* Tree.Root (the virtual root node)
    nodes,       \* Tree.Nodes: path -> ConfigNode
    entries,     \* BuildTree: the entrypoints not yet processed
    stack,       \* the call stack of processFile (top = last)
    created,     \* history: how often a node was constructed for each path
    pending,     \* DiscoverScopes: the subagent entrypoints not yet turned into scopes
    subScopes,   \* DiscoverScopes: the local slice `scopes` while it is filled
    scopes,      \* what the last DiscoverScopes call returned
    calls,       \* how many DiscoverScopes calls have returned
    deletes,     \* how many files the environment has removed
    resIn,       \* resolver check: the input (root, source, ref) of resolveFilePath
    resOut,      \* resolver check: what resolveFilePath returned
    mainChildren,\* DiscoverScopes: the command and skill scopes gathered for main
    fmIn,        \* frontmatter check: the frontmatter and the key looked up
    fmOut,       \* frontmatter check: the sequence extracted
    exIn,        \* extraction check: the lines, the patterns and the markers
    exOut,       \* extraction check: what extractReferences returned
    issues,      \* what the last CircularRefsRule.Run returned
    walk         \* the call stack of the traversal that renders the tree

vars == <<disk, cfg, phase, err, root, nodes, entries, stack, created,
          pending, subScopes, scopes, calls, deletes, resIn, resOut,
          mainChildren, fmIn, fmOut,
                   exIn, exOut, issues, walk>>

(***************************************************************************)
(* Bounds of the model.                                                    *)
(***************************************************************************)
MaxDeletes == 1      \* files the environment removes during a run
MaxCalls == 2        \* DiscoverScopes calls on one tree
ChainLen == 6        \* longest chain of files in the chain projects

(***************************************************************************)
(* Program constants.                                                      *)
(***************************************************************************)
MaxDepth == 5        \* processFile: "if depth < 5"

(***************************************************************************)
(* Strings and paths (strings, path/filepath).                             *)
(***************************************************************************)
Slash == "/"

\* strings.HasPrefix(s, p)
HasPrefix(s, p) ==
    /\ Len(p) <= Len(s)
    /\ SubSeq(s, 1, Len(p)) = p

\* strings.HasSuffix(s, p)
HasSuffix(s, p) ==
    /\ Len(p) <= Len(s)
    /\ SubSeq(s, Len(s) - Len(p) + 1, Len(s)) = p

\* strings.TrimPrefix(s, p): one occurrence of p is removed
TrimPrefix(s, p) ==
    IF HasPrefix(s, p) THEN SubSeq(s, Len(p) + 1, Len(s)) ELSE s

\* strings.TrimSuffix(s, p)
TrimSuffix(s, p) ==
    IF HasSuffix(s, p) THEN SubSeq(s, 1, Len(s) - Len(p)) ELSE s

\* the elements of a path between its separators, empty ones included
RECURSIVE SplitPath(_)
SplitPath(s) ==
    IF \A i \in 1..Len(s) : s[i] # Slash
    THEN <<s>>
    ELSE LET i == CHOOSE k \in 1..Len(s) :
                      s[k] = Slash /\ \A j \in 1..(k - 1) : s[j] # Slash
         IN <<SubSeq(s, 1, i - 1)>> \o SplitPath(SubSeq(s, i + 1, Len(s)))

\* elements joined by separators
RECURSIVE JoinElems(_)
JoinElems(cs) ==
    IF cs = <<>> THEN <<>>
    ELSE IF Len(cs) = 1 THEN cs[1]
    ELSE cs[1] \o <<Slash>> \o JoinElems(Tail(cs))

\* the element stack of filepath.Clean: "." and empty elements dropped,
\* ".." removes the element before it (and is dropped at the root)
RECURSIVE CleanElems(_, _, _)
CleanElems(cs, out, rooted) ==
    IF cs = <<>> THEN out
    ELSE LET c == Head(cs)
             rest == Tail(cs)
         IN IF c = <<>> \/ c = <<".">> THEN CleanElems(rest, out, rooted)
            ELSE IF c = <<"..">>
            THEN IF out # <<>> /\ out[Len(out)] # <<"..">>
                 THEN CleanElems(rest, SubSeq(out, 1, Len(out) - 1), rooted)
                 ELSE IF rooted THEN CleanElems(rest, out, rooted)
                 ELSE CleanElems(rest, Append(out, c), rooted)
            ELSE CleanElems(rest, Append(out, c), rooted)

\* filepath.IsAbs (Unix)
IsAbs(p) == HasPrefix(p, <<Slash>>)

\* filepath.Clean
Clean(p) ==
    LET out == CleanElems(SplitPath(p), <<>>, IsAbs(p))
    IN IF IsAbs(p) THEN <<Slash>> \o JoinElems(out)
       ELSE IF out = <<>> THEN <<".">>
       ELSE JoinElems(out)

\* filepath.Join: the non-empty elements joined by separators, then cleaned
Join(elems) ==
    LET idx == {i \in 1..Len(elems) : elems[i] # <<>>}
        RECURSIVE Cat(_)
        Cat(i) == IF i > Len(elems) THEN <<>>
                  ELSE IF i \in idx
                  THEN (IF \E j \in idx : j < i THEN <<Slash>> ELSE <<>>)
                       \o elems[i] \o Cat(i + 1)
                  ELSE Cat(i + 1)
    IN IF idx = {} THEN <<>> ELSE Clean(Cat(1))

\* filepath.Dir: everything before the last separator, cleaned
Dir(p) ==
    LET seps == {i \in 1..Len(p) : p[i] = Slash}
    IN IF seps = {} THEN <<".">>
       ELSE LET i == CHOOSE k \in seps : \A j \in seps : j <= k
            IN Clean(SubSeq(p, 1, i))

\* filepath.Base of a clean path
Base(p) ==
    LET cs == SplitPath(p) IN cs[Len(cs)]

(***************************************************************************)
(* The file system.  disk maps the clean absolute path of every file to    *)
(* [content, readable, parses, volatile]; a directory exists while a file  *)
(* lies below it.  readable: os.ReadFile succeeds; parses: the parser      *)
(* accepts the file; volatile: the environment may remove the file.        *)
(***************************************************************************)

IsDirOn(d, p) ==
    \/ p = <<Slash>>
    \/ \E f \in DOMAIN d : HasPrefix(f, p \o <<Slash>>)

\* the clean path names a file or a directory
ExistsClean(d, p) == p \in DOMAIN d \/ IsDirOn(d, p)

\* the kernel's walk of an absolute path: every element but the last must
\* be a directory when it is passed
RECURSIVE WalkOK(_, _, _)
WalkOK(d, cur, cs) ==
    IF cs = <<>> THEN ExistsClean(d, cur)
    ELSE LET c == Head(cs)
         IN IF c = <<>> \/ c = <<".">> THEN IsDirOn(d, cur) /\ WalkOK(d, cur, Tail(cs))
            ELSE IF c = <<"..">>
            THEN IsDirOn(d, cur) /\ WalkOK(d, Dir(cur), Tail(cs))
            ELSE /\ IsDirOn(d, cur)
                 /\ WalkOK(d, IF cur = <<Slash>> THEN cur \o c
                                 ELSE cur \o <<Slash>> \o c, Tail(cs))

\* os.Stat(p) returns no error
Stat(d, p) ==
    /\ IsAbs(p)
    /\ WalkOK(d, <<Slash>>, SplitPath(Tail(p)))

\* os.ReadFile(p) returns no error
CanRead(d, p) ==
    /\ Stat(d, p)
    /\ Clean(p) \in DOMAIN d
    /\ d[Clean(p)].readable

(***************************************************************************)
(* resolveFilePath                                                         *)
(***************************************************************************)
\* a slip: the referencing file's directory is tried before the project root
resolveFilePath_SourceFirst(d, rootPath, sourcePath, ref) ==
    LET refPath == TrimPrefix(ref, <<"@">>)
        rootRelative == Join(<<rootPath, refPath>>)
        sourceRelative == Clean(Join(<<Dir(sourcePath), refPath>>))
    IN IF HasPrefix(refPath, <<Slash>>)
       THEN IF Stat(d, rootRelative) THEN Clean(rootRelative)
            ELSE IF IsAbs(refPath) /\ Stat(d, refPath) THEN refPath
            ELSE Clean(rootRelative)
       ELSE IF Stat(d, sourceRelative) THEN sourceRelative
            ELSE IF Stat(d, rootRelative) THEN Clean(rootRelative)
            ELSE rootRelative

\* a slip: a leading "/" is read as a real absolute path first
resolveFilePath_LiteralFirst(d, rootPath, sourcePath, ref) ==
    LET refPath == TrimPrefix(ref, <<"@">>)
        rootRelative == Join(<<rootPath, refPath>>)
        sourceRelative == Clean(Join(<<Dir(sourcePath), refPath>>))
    IN IF HasPrefix(refPath, <<Slash>>)
       THEN IF IsAbs(refPath) /\ Stat(d, refPath) THEN refPath
            ELSE Clean(rootRelative)
       ELSE IF Stat(d, rootRelative) THEN Clean(rootRelative)
            ELSE IF Stat(d, sourceRelative) THEN sourceRelative
            ELSE rootRelative

resolveFilePath(d, rootPath, sourcePath, ref) ==
    LET refPath == TrimPrefix(ref, <<"@">>)
        rootRelative == Join(<<rootPath, refPath>>)
        sourceRelative == Clean(Join(<<Dir(sourcePath), refPath>>))
    IN IF HasPrefix(refPath, <<Slash>>)
       THEN IF Stat(d, rootRelative) THEN Clean(rootRelative)
            ELSE IF IsAbs(refPath) /\ Stat(d, refPath) THEN refPath
            ELSE Clean(rootRelative)
       ELSE IF Stat(d, rootRelative) THEN Clean(rootRelative)
            ELSE IF Stat(d, sourceRelative) THEN sourceRelative
            ELSE rootRelative

(***************************************************************************)
(* Sorting paths (filepath.Glob and os.ReadDir return names in lexical     *)
(* order).                                                                 *)
(***************************************************************************)
TokenOrder ==
    <<"*", ".", "..", ".claude", ".md", "/", "@", "A", "B", "C", "CLAUDE",
      "F1", "F2", "F3", "F4", "F5", "F6", "F7", "F8", "SKILL",
      "agents", "commands", "d", "g", "instructions", "k", "p", "r", "s",
      "skill", "skills", "x", "y", "z">>

Rank(t) == CHOOSE i \in 1..Len(TokenOrder) : TokenOrder[i] = t

RECURSIVE StrLess(_, _)
StrLess(a, b) ==
    IF b = <<>> THEN FALSE
    ELSE IF a = <<>> THEN TRUE
    ELSE IF a[1] = b[1] THEN StrLess(Tail(a), Tail(b))
    ELSE Rank(a[1]) < Rank(b[1])

RECURSIVE SortStrs(_)
SortStrs(S) ==
    IF S = {} THEN <<>>
    ELSE LET m == CHOOSE x \in S : \A y \in S \ {x} : StrLess(x, y)
         IN <<m>> \o SortStrs(S \ {m})

Range(f) == {f[i] : i \in DOMAIN f}

(***************************************************************************)
(* filepath.Glob: "*" matches any run of tokens without a separator.       *)
(***************************************************************************)
RECURSIVE GlobMatch(_, _)
GlobMatch(pat, s) ==
    IF pat = <<>> THEN s = <<>>
    ELSE IF pat[1] = "*"
    THEN \/ GlobMatch(Tail(pat), s)
         \/ s # <<>> /\ s[1] # Slash /\ GlobMatch(pat, Tail(s))
    ELSE s # <<>> /\ s[1] = pat[1] /\ GlobMatch(Tail(pat), Tail(s))

\* every directory that holds a file of the disk
Ancestors(p) ==
    {Clean(SubSeq(p, 1, i)) : i \in {k \in 1..Len(p) : p[k] = Slash}}

AllPaths(d) == DOMAIN d \cup UNION {Ancestors(f) : f \in DOMAIN d}

Glob(d, pattern) == SortStrs({p \in AllPaths(d) : GlobMatch(pattern, p)})

(***************************************************************************)
(* extractReferences.  A file's content is a sequence of lines; a line is  *)
(* a sequence of tokens [re, val, took]: the regex re matches there, val   *)
(* is the text of its first capture group, and took tells whether that     *)
(* group took part in the match (a group that did not has the indices -1). *)
(* A token of the regex "" is plain text that no pattern matches.  A       *)
(* pattern is [Regex, Type, compiled, groups]: compiled is false when      *)
(* regexp.Compile failed, groups is the number of capture groups.          *)
(***************************************************************************)
KnownRefTypes == {"file", "url", "tool", "subagent", "skill", "mcp_server"}

ParseRefType(s) == IF s \in KnownRefTypes THEN s ELSE "unknown"

\* strings.ToUpper, on the words the model writes in both cases
UpperWord(c) ==
    CASE c \in {"important", "Important"} -> "IMPORTANT"
      [] c \in {"should", "Should"} -> "SHOULD"
      [] c \in {"note", "Note"} -> "NOTE"
      [] c = "critical" -> "CRITICAL"
      [] OTHER -> c

ToUpper(str) == [i \in 1..Len(str) |-> UpperWord(str[i])]

\* strings.Contains
Contains(str, substr) ==
    \E i \in 1..(Len(str) + 1) :
        /\ i + Len(substr) - 1 <= Len(str)
        /\ SubSeq(str, i, i + Len(substr) - 1) = substr

\* the text of a line
RECURSIVE LineText(_)
LineText(line) ==
    IF line = <<>> THEN <<>> ELSE Head(line).val \o LineText(Tail(line))

\* strings.Join(lines[start:end], " "), start and end counted from 0
RECURSIVE JoinLines(_, _, _)
JoinLines(lines, start, end) ==
    IF start >= end THEN <<>>
    ELSE IF start + 1 = end THEN LineText(lines[start + 1])
    ELSE LineText(lines[start + 1]) \o <<" ">> \o JoinLines(lines, start + 1, end)

\* how many markers of the list the context holds
Hits(markers, contextUpper) ==
    Cardinality({i \in 1..Len(markers) : Contains(contextUpper, ToUpper(markers[i]))})

\* lineNum counts from 0, as in the code
calculatePriority(lines, lineNum, agentConfig) ==
    LET start == IF lineNum - 5 < 0 THEN 0 ELSE lineNum - 5
        end == IF lineNum + 5 > Len(lines) THEN Len(lines) ELSE lineNum + 5
        contextUpper == ToUpper(JoinLines(lines, start, end))
    IN 3 * Hits(agentConfig.Markers.HighPriority, contextUpper)
       + 2 * Hits(agentConfig.Markers.MediumPriority, contextUpper)
       + Hits(agentConfig.Markers.LowPriority, contextUpper)

\* the references one pattern finds on line n (counted from 1), from token
\* k on; a match with fewer than 4 indices (no capture group) is passed over
RECURSIVE LineRefs(_, _, _, _, _, _)
LineRefs(lines, n, k, path, pattern, agentConfig) ==
    IF k > Len(lines[n]) THEN <<>>
    ELSE (IF lines[n][k].re = pattern.Regex /\ pattern.groups >= 1
          THEN <<[Type |-> ParseRefType(pattern.Type),
                  Value |-> lines[n][k].val,
                  Source |-> [File |-> path, Line |-> n, Column |-> k],
                  Priority |-> calculatePriority(lines, n - 1, agentConfig),
                  Resolved |-> FALSE,
                  Target |-> <<>>]>>
          ELSE <<>>)
         \o LineRefs(lines, n, k + 1, path, pattern, agentConfig)

RECURSIVE PatternRefs(_, _, _, _, _)
PatternRefs(lines, n, path, pattern, agentConfig) ==
    IF n > Len(lines) THEN <<>>
    ELSE LineRefs(lines, n, 1, path, pattern, agentConfig)
         \o PatternRefs(lines, n + 1, path, pattern, agentConfig)

RECURSIVE extractFrom(_, _, _, _)
extractFrom(content, path, agentConfig, j) ==
    IF j > Len(agentConfig.ReferencePatterns) THEN <<>>
    ELSE (IF agentConfig.ReferencePatterns[j].compiled
          THEN PatternRefs(content, 1, path, agentConfig.ReferencePatterns[j],
                           agentConfig)
          ELSE <<>>)
         \o extractFrom(content, path, agentConfig, j + 1)

\* what extractReferences returns when it returns
extractReferences(content, path, agentConfig) ==
    extractFrom(content, path, agentConfig, 1)

\* line[match[2]:match[3]] with the indices -1 of a capture group that did
\* not take part: the slice expression panics
SlicePanics(content, agentConfig) ==
    \E j \in 1..Len(agentConfig.ReferencePatterns) :
        /\ agentConfig.ReferencePatterns[j].compiled
        /\ agentConfig.ReferencePatterns[j].groups >= 1
        /\ \E n \in 1..Len(content) : \E k \in 1..Len(content[n]) :
              /\ content[n][k].re = agentConfig.ReferencePatterns[j].Regex
              /\ ~content[n][k].took

\* the call of extractReferences: it returns the references or panics
extractReferencesCall(content, path, agentConfig) ==
    IF SlicePanics(content, agentConfig)
    THEN [outcome |-> "panic", refs |-> <<>>]
    ELSE [outcome |-> "returned",
          refs |-> extractReferences(content, path, agentConfig)]

(***************************************************************************)
(* The tree.  A node is [Path, Content, Parsed, References, Children,      *)
(* Parent, Depth]; Children and Parent hold the paths of the nodes they    *)
(* point to.                                                               *)
(***************************************************************************)
NilParent == <<"nil">>       \* Parent: nil
RootParent == <<"root">>     \* Parent: tree.Root
NoRoot == [Path |-> <<>>, Depth |-> 0, Children |-> <<>>]

RootPath == <<Slash, "r">>

\* processFile(path, agentConfig, parent, depth) has been called
Frame(path, parent, depth) ==
    [path |-> path, parent |-> parent, depth |-> depth,
     pc |-> "enter", i |-> 1, seenChildren |-> {}]

Top == stack[Len(stack)]

Pop == SubSeq(stack, 1, Len(stack) - 1)

\* the file being processed has its reference i handled: the loop goes on
Advance(st) == [st EXCEPT ![Len(st)].i = @ + 1]

(***************************************************************************)
(* The return of the innermost processFile call to its caller: the         *)
(* reference loop of the calling processFile (scope.go:412-415), BuildTree *)
(* (scope.go:349-353) or DiscoverScopes (scope.go:121).  ok is err == nil. *)
(***************************************************************************)
\* a slip: the node is appended although the call failed
KeepChild_Always(ok) == TRUE

\* a slip: the node that comes back is never appended
KeepChild_Never(ok) == FALSE

\* "if err == nil" (scope.go:413), "if err != nil { continue }" (scope.go:350)
KeepChild(ok) == ok

\* a slip: the node handed back is re-parented under the file that reached it
Deliver_Adopt(ok, path, nodesNow) ==
    /\ stack' = IF Len(stack) > 1 THEN Advance(Pop) ELSE <<>>
    /\ nodes' = IF Len(stack) > 1 /\ KeepChild(ok)
                THEN [nodesNow EXCEPT ![stack[Len(stack) - 1].path].Children =
                                           Append(@, path),
                                       ![path].Parent = stack[Len(stack) - 1].path]
                ELSE nodesNow
    /\ root' = IF Len(stack) = 1 /\ KeepChild(ok) /\ phase = "building"
               THEN [root EXCEPT !.Children = Append(@, path)]
               ELSE root

Deliver(ok, path, nodesNow) ==
    /\ stack' = IF Len(stack) > 1 THEN Advance(Pop) ELSE <<>>
    /\ nodes' = IF Len(stack) > 1 /\ KeepChild(ok)
                THEN [nodesNow EXCEPT ![stack[Len(stack) - 1].path].Children =
                                           Append(@, path)]
                ELSE nodesNow
    /\ root' = IF Len(stack) = 1 /\ KeepChild(ok) /\ phase = "building"
               THEN [root EXCEPT !.Children = Append(@, path)]
               ELSE root

(***************************************************************************)
(* BuildTree                                                               *)
(***************************************************************************)
RECURSIVE GlobAll(_, _, _)
GlobAll(d, rootPath, patterns) ==
    IF patterns = <<>> THEN <<>>
    ELSE Glob(d, Join(<<rootPath, Head(patterns)>>))
         \o GlobAll(d, rootPath, Tail(patterns))

\* a slip: a matched entrypoint that cannot be read is reported as fatal
NoEntrypoints_Unreadable(d, entrypoints) ==
    \/ Len(entrypoints) = 0
    \/ \E i \in 1..Len(entrypoints) : ~CanRead(d, entrypoints[i])

\* "if len(entrypoints) == 0"
NoEntrypoints(d, entrypoints) == Len(entrypoints) = 0

\* BuildTree up to its loop over the entrypoints
BuildTree_Start ==
    /\ phase = "init"
    /\ LET entrypoints == GlobAll(disk, RootPath, cfg.Entrypoints)
       IN IF NoEntrypoints(disk, entrypoints)
          THEN /\ phase' = "error"
               /\ err' = "no configuration files found"
               /\ UNCHANGED <<root, entries>>
          ELSE /\ phase' = "building"
               /\ root' = [Path |-> RootPath, Depth |-> 0, Children |-> <<>>]
               /\ entries' = entrypoints
               /\ UNCHANGED err
    /\ UNCHANGED <<disk, cfg, nodes, stack, created, pending, subScopes,
                   scopes, calls, deletes, resIn, resOut,
                   mainChildren, fmIn, fmOut,
                   exIn, exOut, issues, walk>>

\* one round of "for _, entry := range entrypoints": the call of processFile
BuildTree_Entry ==
    /\ phase = "building"
    /\ stack = <<>>
    /\ entries # <<>>
    /\ stack' = <<Frame(Head(entries), RootParent, 1)>>
    /\ entries' = Tail(entries)
    /\ UNCHANGED <<disk, cfg, phase, err, root, nodes, created, pending,
                   subScopes, scopes, calls, deletes, resIn, resOut,
                   mainChildren, fmIn, fmOut,
                   exIn, exOut, issues, walk>>

\* "return tree, nil"
BuildTree_Return ==
    /\ phase = "building"
    /\ stack = <<>>
    /\ entries = <<>>
    /\ phase' = "built"
    /\ UNCHANGED <<disk, cfg, err, root, nodes, entries, stack, created,
                   pending, subScopes, scopes, calls, deletes, resIn, resOut,
                   mainChildren, fmIn, fmOut,
                   exIn, exOut, issues, walk>>

(***************************************************************************)
(* processFile                                                             *)
(***************************************************************************)
\* a slip: the "avoid cycles" check is missing
AlreadyProcessed_Never(path) == FALSE

\* "if _, exists := t.Nodes[path]; exists"
AlreadyProcessed(path) == path \in DOMAIN nodes

\* a slip: a file that cannot be read still gets an (empty) node
ReadFails_Never(d, path) == FALSE

\* "content, err := os.ReadFile(path); if err != nil"
ReadFails(d, path) == ~CanRead(d, path)

\* parser.Parse reads the file again and parses it
ParseOK(d, path) == CanRead(d, path) /\ d[Clean(path)].parses

\* a slip: the node is registered at its parent's depth
NewNode_ParentDepth(d, f) ==
    LET readable == CanRead(d, f.path)
        content == IF readable THEN d[Clean(f.path)].content ELSE <<>>
    IN [Path |-> f.path,
        Content |-> content,
        Parsed |-> IF ParseOK(d, f.path) THEN "parsed" ELSE "stub",
        References |-> extractReferences(content, f.path, cfg),
        Children |-> <<>>,
        Parent |-> f.parent,
        Depth |-> f.depth - 1]

\* the node processFile registers (scope.go:381-392)
NewNode(d, f) ==
    LET readable == CanRead(d, f.path)
        content == IF readable THEN d[Clean(f.path)].content ELSE <<>>
    IN [Path |-> f.path,
        Content |-> content,
        Parsed |-> IF ParseOK(d, f.path) THEN "parsed" ELSE "stub",
        References |-> extractReferences(content, f.path, cfg),
        Children |-> <<>>,
        Parent |-> f.parent,
        Depth |-> f.depth]

\* processFile from its entry to the reference loop (scope.go:361-392)
processFile_Enter ==
    /\ stack # <<>>
    /\ Top.pc = "enter"
    /\ IF AlreadyProcessed(Top.path)
       THEN /\ Deliver(TRUE, Top.path, nodes)
            /\ UNCHANGED created
       ELSE IF ReadFails(disk, Top.path)
       THEN /\ Deliver(FALSE, Top.path, nodes)
            /\ UNCHANGED created
       ELSE /\ nodes' = [q \in DOMAIN nodes \cup {Top.path} |->
                            IF q = Top.path THEN NewNode(disk, Top) ELSE nodes[q]]
            /\ created' = [q \in DOMAIN created \cup {Top.path} |->
                            IF q \in DOMAIN created
                            THEN created[q] + (IF q = Top.path THEN 1 ELSE 0)
                            ELSE 1]
            /\ stack' = [stack EXCEPT ![Len(stack)].pc = "loop"]
            /\ UNCHANGED root
    /\ UNCHANGED <<disk, cfg, phase, err, entries, pending, subScopes,
                   scopes, calls, deletes, resIn, resOut,
                   mainChildren, fmIn, fmOut,
                   exIn, exOut, issues, walk>>

\* a slip: the walk goes one level deeper
DepthAllows_OneMore(depth) == depth < MaxDepth + 1

\* "if depth < 5"
DepthAllows(depth) == depth < MaxDepth

\* a slip: a target is walked once per reference to it
SeenChild_Never(seen, resolvedPath) == FALSE

\* "if seenChildren[resolvedPath]"
SeenChild(seen, resolvedPath) == resolvedPath \in seen

\* a slip: the existence check of the resolved path is skipped
StatTarget_Always(d, resolvedPath) == TRUE

\* "if _, err := os.Stat(resolvedPath); err == nil"
StatTarget(d, resolvedPath) == Stat(d, resolvedPath)

\* one round of "for i, ref := range node.References" (scope.go:397-417)
processFile_Ref ==
    /\ stack # <<>>
    /\ Top.pc = "loop"
    /\ DepthAllows(Top.depth)
    /\ Top.i <= Len(nodes[Top.path].References)
    /\ LET f == Top
           ref == nodes[f.path].References[f.i]
           resolvedPath == resolveFilePath(disk, RootPath, f.path, ref.Value)
       IN IF ref.Type # "file"
          THEN /\ stack' = Advance(stack)
               /\ UNCHANGED nodes
          ELSE IF ~StatTarget(disk, resolvedPath)
          THEN /\ nodes' = [nodes EXCEPT ![f.path].References[f.i].Target =
                                             resolvedPath]
               /\ stack' = Advance(stack)
          ELSE /\ nodes' = [nodes EXCEPT
                               ![f.path].References[f.i].Target = resolvedPath,
                               ![f.path].References[f.i].Resolved = TRUE]
               /\ IF SeenChild(f.seenChildren, resolvedPath)
                  THEN stack' = Advance(stack)
                  ELSE stack' = Append(
                           [stack EXCEPT ![Len(stack)].seenChildren =
                                             @ \cup {resolvedPath}],
                           Frame(resolvedPath, f.path, f.depth + 1))
    /\ UNCHANGED <<disk, cfg, phase, err, root, entries, created, pending,
                   subScopes, scopes, calls, deletes, resIn, resOut,
                   mainChildren, fmIn, fmOut,
                   exIn, exOut, issues, walk>>

\* "return node, nil"
processFile_Return ==
    /\ stack # <<>>
    /\ Top.pc = "loop"
    /\ ~DepthAllows(Top.depth) \/ Top.i > Len(nodes[Top.path].References)
    /\ Deliver(TRUE, Top.path, nodes)
    /\ UNCHANGED <<disk, cfg, phase, err, entries, created, pending,
                   subScopes, scopes, calls, deletes, resIn, resOut,
                   mainChildren, fmIn, fmOut,
                   exIn, exOut, issues, walk>>

(***************************************************************************)
(* collectReachableNodes: a depth-first walk with a visited set; the       *)
(* walk state is [visited, out].                                           *)
(***************************************************************************)
\* the targets visit() follows from a node, in the order it follows them
Followed(node) ==
    LET refs == node.References
        RECURSIVE RefTargets(_)
        RefTargets(i) ==
            IF i > Len(refs) THEN <<>>
            ELSE (IF refs[i].Type = "file" /\ refs[i].Resolved
                  THEN <<refs[i].Target>> ELSE <<>>) \o RefTargets(i + 1)
    IN RefTargets(1) \o node.Children

RECURSIVE visit(_, _, _)
RECURSIVE visitEach(_, _, _)
visit(ns, path, st) ==
    IF path \in st.visited THEN st
    ELSE LET st1 == [st EXCEPT !.visited = @ \cup {path}]
         IN IF path \notin DOMAIN ns THEN st1
            ELSE visitEach(ns, Followed(ns[path]),
                           [st1 EXCEPT !.out = Append(@, path)])

visitEach(ns, paths, st) ==
    IF paths = <<>> THEN st
    ELSE visitEach(ns, Tail(paths), visit(ns, Head(paths), st))

collectReachableNodes(ns, entrypoint) ==
    visit(ns, entrypoint, [visited |-> {}, out |-> <<>>]).out

(***************************************************************************)
(* DiscoverScopes                                                          *)
(***************************************************************************)
Put(m, k, v) == [q \in DOMAIN m \cup {k} |-> IF q = k THEN v ELSE m[q]]

Perms(S) == {s \in [1..Cardinality(S) -> S] : Range(s) = S}

AgentsDir(rootPath) == Join(<<rootPath, <<".claude">>, <<"agents">>>>)

\* the first of possiblePaths that exists, or <<>> (scope.go:68-78)
SubagentPath(d, rootPath, subagentName) ==
    LET possiblePaths ==
            <<Join(<<rootPath, <<".claude">>, <<"agents">>, subagentName \o <<".md">>>>),
              Join(<<rootPath, <<".claude">>, <<"agents">>, subagentName, <<"CLAUDE", ".md">>>>),
              Join(<<rootPath, <<".claude">>, <<"agents">>, subagentName, <<"instructions", ".md">>>>)>>
        found == {i \in 1..3 : Stat(d, possiblePaths[i])}
    IN IF found = {} THEN <<>>
       ELSE possiblePaths[CHOOSE i \in found : \A j \in found : i <= j]

\* "for _, ref := range node.References" of strategy 1
RECURSIVE FromNodeRefs(_, _, _, _)
FromNodeRefs(d, rootPath, refs, m) ==
    IF refs = <<>> THEN m
    ELSE LET ref == Head(refs)
             path == SubagentPath(d, rootPath, ref.Value)
         IN FromNodeRefs(d, rootPath, Tail(refs),
                IF ref.Type = "subagent" /\ path # <<>>
                THEN Put(m, path, ref.Value) ELSE m)

\* "for _, node := range t.Nodes", the map being ranged over in `order`
RECURSIVE FromRefs(_, _, _, _, _)
FromRefs(d, rootPath, ns, order, m) ==
    IF order = <<>> THEN m
    ELSE FromRefs(d, rootPath, ns, Tail(order),
                  FromNodeRefs(d, rootPath, ns[Head(order)].References, m))

\* os.ReadDir(agentsDir): the names in the directory, sorted
DirEntries(d, dir) ==
    SortStrs({Base(p) : p \in {q \in AllPaths(d) : q # <<Slash>> /\ Dir(q) = dir}})

\* a slip: the directory walk overwrites the name a reference gave
FromDirEntry_Overwrite(d, agentsDir, name, m) ==
    IF IsDirOn(d, Join(<<agentsDir, name>>))
    THEN LET dirPath == Join(<<agentsDir, name>>)
             c1 == Join(<<dirPath, <<"CLAUDE", ".md">>>>)
             c2 == Join(<<dirPath, <<"instructions", ".md">>>>)
             path == IF Stat(d, c1) THEN c1 ELSE IF Stat(d, c2) THEN c2 ELSE <<>>
         IN IF path # <<>> THEN Put(m, path, name) ELSE m
    ELSE IF HasSuffix(name, <<".md">>)
    THEN Put(m, Join(<<agentsDir, name>>), TrimSuffix(name, <<".md">>))
    ELSE m

\* one entry of the agents directory (scope.go:87-106)
FromDirEntry(d, agentsDir, name, m) ==
    IF IsDirOn(d, Join(<<agentsDir, name>>))
    THEN LET dirPath == Join(<<agentsDir, name>>)
             c1 == Join(<<dirPath, <<"CLAUDE", ".md">>>>)
             c2 == Join(<<dirPath, <<"instructions", ".md">>>>)
             path == IF Stat(d, c1) THEN c1 ELSE IF Stat(d, c2) THEN c2 ELSE <<>>
         IN IF path # <<>> /\ path \notin DOMAIN m THEN Put(m, path, name) ELSE m
    ELSE IF HasSuffix(name, <<".md">>)
    THEN LET path == Join(<<agentsDir, name>>)
         IN IF path \notin DOMAIN m
            THEN Put(m, path, TrimSuffix(name, <<".md">>)) ELSE m
    ELSE m

RECURSIVE FromDir(_, _, _, _)
FromDir(d, agentsDir, names, m) ==
    IF names = <<>> THEN m
    ELSE FromDir(d, agentsDir, Tail(names),
                 FromDirEntry(d, agentsDir, Head(names), m))

EmptyMap == [q \in {} |-> <<>>]

\* subagentEntrypoints after both strategies (scope.go:60-108)
subagentEntrypoints(d, rootPath, ns, order) ==
    LET agentsDir == AgentsDir(rootPath)
        m1 == FromRefs(d, rootPath, ns, order, EmptyMap)
    IN IF IsDirOn(d, agentsDir)
       THEN FromDir(d, agentsDir, DirEntries(d, agentsDir), m1)
       ELSE m1

\* the nodes whose references strategy 1 reads
WithSubagentRefs(ns) ==
    {q \in DOMAIN ns :
        \E i \in 1..Len(ns[q].References) : ns[q].References[i].Type = "subagent"}

\* DiscoverScopes up to its loop over subagentEntrypoints
DiscoverScopes_Start ==
    /\ phase = "built"
    /\ calls < MaxCalls
    /\ \E order \in Perms(WithSubagentRefs(nodes)) :
          LET m == subagentEntrypoints(disk, RootPath, nodes, order)
          IN \E range \in Perms(DOMAIN m) :
                pending' = [i \in 1..Len(range) |->
                               [Entrypoint |-> range[i], Name |-> m[range[i]],
                                tried |-> FALSE]]
    /\ phase' = "discovering"
    /\ subScopes' = <<>>
    /\ UNCHANGED <<disk, cfg, err, root, nodes, entries, stack, created,
                   scopes, calls, deletes, resIn, resOut,
                   mainChildren, fmIn, fmOut,
                   exIn, exOut, issues, walk>>

\* "if _, exists := t.Nodes[entrypoint]; !exists": the call of processFile
DiscoverScopes_Process ==
    /\ phase = "discovering"
    /\ stack = <<>>
    /\ pending # <<>>
    /\ ~Head(pending).tried
    /\ Head(pending).Entrypoint \notin DOMAIN nodes
    /\ stack' = <<Frame(Head(pending).Entrypoint, NilParent, 1)>>
    /\ pending' = [pending EXCEPT ![1].tried = TRUE]
    /\ UNCHANGED <<disk, cfg, phase, err, root, nodes, entries, created,
                   subScopes, scopes, calls, deletes, resIn, resOut,
                   mainChildren, fmIn, fmOut,
                   exIn, exOut, issues, walk>>

RECURSIVE PathsOf(_, _)
PathsOf(ns, ps) ==
    IF ps = <<>> THEN <<>> ELSE <<ns[Head(ps)].Path>> \o PathsOf(ns, Tail(ps))

\* a slip: a scope holds its entrypoint's node alone
ScopeNodes_EntryOnly(ns, entrypoint) == <<entrypoint>>

\* "scope.Nodes = t.collectReachableNodes(entrypoint)"
ScopeNodes(ns, entrypoint) == collectReachableNodes(ns, entrypoint)

\* the rest of one round of the loop over subagentEntrypoints (scope.go:124-135)
DiscoverScopes_Scope ==
    /\ phase = "discovering"
    /\ stack = <<>>
    /\ pending # <<>>
    /\ Head(pending).tried \/ Head(pending).Entrypoint \in DOMAIN nodes
    /\ LET entrypoint == Head(pending).Entrypoint
           found == IF entrypoint \in DOMAIN nodes
                    THEN ScopeNodes(nodes, entrypoint) ELSE <<>>
           scope == [Type |-> "subagent",
                     Name |-> Head(pending).Name,
                     Entrypoint |-> entrypoint,
                     Nodes |-> found,
                     FilePaths |-> PathsOf(nodes, found)]
       IN subScopes' = IF Len(found) > 0 THEN Append(subScopes, scope)
                       ELSE subScopes
    /\ pending' = Tail(pending)
    /\ UNCHANGED <<disk, cfg, phase, err, root, nodes, entries, stack,
                   created, scopes, calls, deletes, resIn, resOut,
                   mainChildren, fmIn, fmOut,
                   exIn, exOut, issues, walk>>

\* the nodes of the main scope (scope.go:146-155)
\* a slip: the mainVisited test is missing
MainVisited_Never(acc, path) == FALSE

\* "if !mainVisited[node.Path]" (negated)
MainVisited(acc, path) == path \in Range(acc)

RECURSIVE AddUnseen(_, _)
AddUnseen(acc, ps) ==
    IF ps = <<>> THEN acc
    ELSE AddUnseen(IF MainVisited(acc, Head(ps)) THEN acc ELSE Append(acc, Head(ps)),
                   Tail(ps))

RECURSIVE MainNodes(_, _, _)
MainNodes(ns, children, acc) ==
    IF children = <<>> THEN acc
    ELSE MainNodes(ns, Tail(children),
                   AddUnseen(acc, collectReachableNodes(ns, Head(children))))

\* the main scope and "return scopes, nil"
DiscoverScopes_Return ==
    /\ phase = "discovering"
    /\ stack = <<>>
    /\ pending = <<>>
    /\ LET found == MainNodes(nodes, root.Children, <<>>)
           mainScope == [Type |-> "main",
                         Name |-> <<"main">>,
                         Entrypoint |-> RootPath,
                         Nodes |-> found,
                         FilePaths |-> PathsOf(nodes, found)]
       IN scopes' = IF Len(found) > 0 THEN <<mainScope>> \o subScopes
                    ELSE subScopes
    /\ subScopes' = <<>>
    /\ phase' = "built"
    /\ calls' = calls + 1
    /\ UNCHANGED <<disk, cfg, err, root, nodes, entries, stack, created,
                   pending, deletes, resIn, resOut,
                   mainChildren, fmIn, fmOut,
                   exIn, exOut, issues, walk>>

(***************************************************************************)
(* The environment: a file is removed while the program runs.              *)
(***************************************************************************)
DeleteFile ==
    /\ phase \in {"building", "discovering"}
    /\ deletes < MaxDeletes
    /\ \E f \in DOMAIN disk :
          /\ disk[f].volatile
          /\ disk' = [q \in DOMAIN disk \ {f} |-> disk[q]]
    /\ deletes' = deletes + 1
    /\ UNCHANGED <<cfg, phase, err, root, nodes, entries, stack, created,
                   pending, subScopes, scopes, calls, resIn, resOut,
                   mainChildren, fmIn, fmOut,
                   exIn, exOut, issues, walk>>

(***************************************************************************)
(* The projects the model starts from.                                     *)
(***************************************************************************)
FileRef(val) == [re |-> "file_re", val |-> val, took |-> TRUE]
AgentRef(name) == [re |-> "agent_re", val |-> name, took |-> TRUE]

File(content) ==
    [content |-> content, readable |-> TRUE, parses |-> TRUE, volatile |-> FALSE]

Patterns ==
    <<[Regex |-> "file_re", Type |-> "file", compiled |-> TRUE, groups |-> 1],
      [Regex |-> "bad_re", Type |-> "url", compiled |-> FALSE, groups |-> 1],
      [Regex |-> "agent_re", Type |-> "subagent", compiled |-> TRUE, groups |-> 1]>>

\* agent.Markers
Markers ==
    [HighPriority |-> << <<"IMPORTANT">>, <<"critical">> >>,
     MediumPriority |-> << <<"should">> >>,
     LowPriority |-> << <<"Note">> >>]

Profile(entrypoints) ==
    [Entrypoints |-> entrypoints, ReferencePatterns |-> Patterns,
     Markers |-> Markers]

PathA == <<Slash, "r", Slash, "A">>
PathB == <<Slash, "r", Slash, "B">>
PathX == <<Slash, "r", Slash, ".claude", Slash, "agents", Slash, "x", ".md">>
PathY == <<Slash, "r", Slash, ".claude", Slash, "agents", Slash, "y", ".md">>

Absent == [absent |-> TRUE]

\* what the entrypoint A may be
MenuA ==
    {Absent,
     [File(<<>>) EXCEPT !.readable = FALSE],
     File(<< <<FileRef(<<"B">>)>> >>),
     File(<< <<FileRef(<<"@", "B">>), FileRef(<<"B">>)>> >>),
     [File(<< <<FileRef(<<"B">>)>>, <<FileRef(<<"A">>)>> >>) EXCEPT !.parses = FALSE],
     File(<< <<FileRef(<<"B">>)>>, <<AgentRef(<<"x">>)>> >>),
     File(<< <<AgentRef(<<".", Slash, "x">>)>> >>)}

\* what the file B may be
MenuB ==
    {Absent,
     [File(<<>>) EXCEPT !.readable = FALSE],
     [File(<<>>) EXCEPT !.volatile = TRUE],
     File(<< <<FileRef(<<"A">>)>>, <<FileRef(<<"@", Slash, "A">>)>> >>),
     File(<< <<FileRef(<<"C">>)>>, <<FileRef(<<".", Slash, "B">>)>>,
             <<FileRef(<<".claude">>)>> >>)}

\* what the subagent file x.md may be
MenuX ==
    {Absent,
     File(<<>>),
     [File(<< <<FileRef(<<"B">>)>> >>) EXCEPT !.volatile = TRUE],
     File(<< <<FileRef(<<"A">>)>>, <<FileRef(<<"B">>)>> >>)}

\* what the subagent file y.md may be
MenuY == {Absent, File(<<>>)}

EntrypointMenu == {<< <<"A">> >>, << <<"A">>, <<"*">> >>}

\* the disk that holds the chosen files
DiskOf(choice) ==
    [q \in {q \in DOMAIN choice : choice[q] # Absent} |-> choice[q]]

SmallProjects ==
    {DiskOf([q \in {PathA, PathB, PathX, PathY} |->
                IF q = PathA THEN a ELSE IF q = PathB THEN b
                ELSE IF q = PathX THEN x ELSE y]) :
        a \in MenuA, b \in MenuB, x \in MenuX, y \in MenuY}

\* the chain projects: F1 -> F2 -> ... -> F<ChainLen>, with extra references
FName == <<"F1", "F2", "F3", "F4", "F5", "F6", "F7", "F8">>

PathF(i) == <<Slash, "r", Slash, FName[i]>>

ChainMenu(i) ==
    IF i = ChainLen
    THEN {File(<<>>), File(<< <<FileRef(<<FName[1]>>)>> >>)}
    ELSE {File(<< <<FileRef(<<FName[i + 1]>>)>> >>),
          File(<< <<FileRef(<<FName[i + 1]>>)>>, <<FileRef(<<FName[1]>>)>> >>)}
         \cup (IF i = 1
               THEN {File(<< <<FileRef(<<FName[2]>>), FileRef(<<FName[2]>>)>> >>)}
               ELSE {File(<<>>)})

\* every way of giving the files i..ChainLen a content from their menus
RECURSIVE ChainFrom(_)
ChainFrom(i) ==
    IF i > ChainLen
    THEN {[q \in {PathX} |-> File(<< <<FileRef(<<FName[ChainLen]>>)>> >>)]}
    ELSE {[q \in DOMAIN d \cup {PathF(i)} |-> IF q = PathF(i) THEN f ELSE d[q]] :
             d \in ChainFrom(i + 1), f \in ChainMenu(i)}

ChainProjects == ChainFrom(1)

\* the projects in which the main walk reaches the subagent file x.md at
\* the end of a chain: F1 -> ... -> Fk -> x.md, and x.md -> F2
AgentDepths == {2, 3, 4}

XRef == <<".claude", Slash, "agents", Slash, "x", ".md">>

DeepDisk(k) ==
    [q \in {PathF(i) : i \in 1..k} \cup {PathX} |->
        IF q = PathX THEN File(<< <<FileRef(<<FName[2]>>)>> >>)
        ELSE IF q = PathF(k) THEN File(<< <<FileRef(XRef)>> >>)
        ELSE File(<< <<FileRef(<<FName[(CHOOSE i \in 1..k : q = PathF(i)) + 1]>>)>> >>)]

DeepProjects == {DeepDisk(k) : k \in AgentDepths}

Unset == <<"unset">>

\* CircularRefsRule.Run has not been called
NoRun == [ran |-> FALSE, list |-> <<>>]

\* extractReferences has not been called
NoCall == [outcome |-> "none", refs |-> <<>>]

InitProgram ==
    /\ phase = "init"
    /\ err = ""
    /\ root = NoRoot
    /\ nodes = EmptyMap
    /\ entries = <<>>
    /\ stack = <<>>
    /\ created = EmptyMap
    /\ pending = <<>>
    /\ subScopes = <<>>
    /\ scopes = <<>>
    /\ calls = 0
    /\ deletes = 0
    /\ mainChildren = <<>>
    /\ issues = NoRun
    /\ walk = <<>>

Init ==
    /\ \/ /\ disk \in SmallProjects
          /\ cfg \in {Profile(e) : e \in EntrypointMenu}
       \/ /\ disk \in ChainProjects \cup DeepProjects
          /\ cfg = Profile(<< <<FName[1]>> >>)
    /\ InitProgram
    /\ resIn = Unset
    /\ resOut = Unset
    /\ fmIn = Unset
    /\ fmOut = Unset
    /\ exIn = Unset
    /\ exOut = NoCall

Step ==
    \/ BuildTree_Start
    \/ BuildTree_Entry
    \/ BuildTree_Return
    \/ processFile_Enter
    \/ processFile_Ref
    \/ processFile_Return
    \/ DiscoverScopes_Start
    \/ DiscoverScopes_Process
    \/ DiscoverScopes_Scope
    \/ DiscoverScopes_Return

Next == Step \/ DeleteFile

Spec == Init /\ [][Next]_vars


(***************************************************************************)
(* The resolver on its own: resolveFilePath applied to one input.          *)
(***************************************************************************)
\* the files that may lie on the disk of the resolver check
ResolveFiles ==
    {<<Slash, "r", Slash, "A">>,
     <<Slash, "r", Slash, "s", Slash, "A">>,
     <<Slash, "A">>,
     <<Slash, "r", Slash, "r", Slash, "A">>,
     <<Slash, "r", Slash, "@", "A">>,
     <<Slash, "r", Slash, "s", Slash, "@", "A">>}

\* the referencing files
ResolveSources ==
    {<<Slash, "r", Slash, "B">>, <<Slash, "r", Slash, "s", Slash, "B">>}

\* the reference values
ResolveRefs ==
    {<<"A">>, <<"@", "A">>, <<"@", "@", "A">>, <<".", Slash, "A">>,
     <<"..", Slash, "A">>, <<"s", Slash, "A">>,
     <<Slash, "A">>, <<"@", Slash, "A">>, <<Slash, "r", Slash, "A">>,
     <<"@", Slash, "s", Slash, "A">>, <<Slash, "r", Slash, ".", Slash, "A">>}

InitResolve ==
    /\ disk \in {[q \in S |-> File(<<>>)] : S \in SUBSET ResolveFiles}
    /\ cfg = Profile(<<>>)
    /\ InitProgram
    /\ resIn \in {[rootPath |-> RootPath, sourcePath |-> src, refPath |-> ref] :
                     src \in ResolveSources, ref \in ResolveRefs}
    /\ resOut = Unset
    /\ fmIn = Unset
    /\ fmOut = Unset
    /\ exIn = Unset
    /\ exOut = NoCall

Resolve ==
    /\ resOut = Unset
    /\ resOut' = resolveFilePath(disk, resIn.rootPath, resIn.sourcePath, resIn.refPath)
    /\ UNCHANGED <<disk, cfg, phase, err, root, nodes, entries, stack, created,
                   pending, subScopes, scopes, calls, deletes, resIn,
                   mainChildren, fmIn, fmOut,
                   exIn, exOut, issues, walk>>

SpecResolve == InitResolve /\ [][Resolve]_vars

(***************************************************************************)
(* C6, C7: the candidates the resolver chooses among, as the claims name   *)
(* them.                                                                   *)
(***************************************************************************)
\* the reference with one leading "@" removed
Stripped(ref) == IF ref # <<>> /\ ref[1] = "@" THEN Tail(ref) ELSE ref

\* root/ref
RootCandidate(in) == Clean(in.rootPath \o <<Slash>> \o Stripped(in.refPath))

\* dir(source)/ref
SourceCandidate(in) ==
    Clean(Dir(in.sourcePath) \o <<Slash>> \o Stripped(in.refPath))

RelativeRef(in) == Stripped(in.refPath) = <<>> \/ Stripped(in.refPath)[1] # Slash

C7_RootedResolution ==
    (resOut # Unset /\ ~RelativeRef(resIn)) =>
        resOut = IF Stat(disk, RootCandidate(resIn)) THEN RootCandidate(resIn)
                 ELSE IF Stat(disk, Stripped(resIn.refPath))
                 THEN Stripped(resIn.refPath)
                 ELSE RootCandidate(resIn)

\* root/ref, the literal path and the same name beside the referencing file
\* all exist, and root/ref is returned
C7_Witness ==
    /\ resOut # Unset
    /\ ~RelativeRef(resIn)
    /\ Stat(disk, RootCandidate(resIn))
    /\ Stat(disk, Stripped(resIn.refPath))
    /\ Stat(disk, SourceCandidate(resIn))
    /\ Cardinality({RootCandidate(resIn), Stripped(resIn.refPath),
                    SourceCandidate(resIn)}) = 3
    /\ resOut = RootCandidate(resIn)

(***************************************************************************)
(* C1: termination and one node per processed path.                        *)
(***************************************************************************)
Running == phase \in {"building", "discovering"}

\* the files that can still get a node
Uncreated(d, ns) == {q \in DOMAIN d : CanRead(d, q)} \ DOMAIN ns

\* the rounds the reference loop of frame k still has to make
RoundsLeft(ns, st, k) ==
    LET f == st[k]
    IN IF f.pc = "loop" /\ f.path \in DOMAIN ns /\ DepthAllows(f.depth)
          /\ f.i <= Len(ns[f.path].References)
       THEN Len(ns[f.path].References) - f.i + 1
       ELSE 0

\* the steps a frame owes before its call of processFile is over, the calls
\* it may still make not counted
FrameWork(ns, st, k) ==
    IF st[k].pc = "enter" THEN 1
    ELSE IF k = Len(st) THEN 3 * RoundsLeft(ns, st, k) + 1
    ELSE 3 * RoundsLeft(ns, st, k) - 1

RECURSIVE StackWork(_, _, _)
StackWork(ns, st, k) ==
    IF k > Len(st) THEN 0 ELSE FrameWork(ns, st, k) + StackWork(ns, st, k + 1)

RECURSIVE PendingWork(_)
PendingWork(pe) ==
    IF pe = <<>> THEN 0
    ELSE (IF Head(pe).tried THEN 2 ELSE 4) + PendingWork(Tail(pe))

\* a pair ordered lexicographically: the files without a node, then the
\* steps owed by the calls in progress and the loops of the callers
Measure(d, ns, st, en, pe, ph) ==
    <<Cardinality(Uncreated(d, ns)),
      StackWork(ns, st, 1) + 2 * Len(en) + PendingWork(pe)
        + (IF ph \in {"building", "discovering"} THEN 1 ELSE 0)>>

LexLess(a, b) == a[1] < b[1] \/ (a[1] = b[1] /\ a[2] < b[2])

\* every step of a running BuildTree or DiscoverScopes lowers the measure
Progress ==
    (Running /\ disk' = disk) =>
        LexLess(Measure(disk', nodes', stack', entries', pending', phase'),
                Measure(disk, nodes, stack, entries, pending, phase))

\* a running call always has a next step: the innermost processFile is at
\* its entry or in its loop with its node registered, and every caller
\* waits in a round of its own loop
CanGoOn ==
    /\ Running =>
          \A k \in 1..Len(stack) :
             \/ k = Len(stack) /\ stack[k].pc = "enter"
             \/ /\ stack[k].pc = "loop"
                /\ stack[k].path \in DOMAIN nodes
                /\ k < Len(stack) =>
                      /\ DepthAllows(stack[k].depth)
                      /\ stack[k].i <= Len(nodes[stack[k].path].References)
    /\ ~Running => (stack = <<>> /\ entries = <<>> /\ pending = <<>>)

OnePerPath ==
    /\ DOMAIN created = DOMAIN nodes
    /\ \A q \in DOMAIN nodes : created[q] = 1 /\ nodes[q].Path = q

\* entrypoint A references B, B references A (twice)
MutualProject ==
    /\ cfg.Entrypoints = << <<"A">> >>
    /\ {PathA, PathB} \subseteq DOMAIN disk
    /\ disk[PathA] = File(<< <<FileRef(<<"B">>)>> >>)
    /\ disk[PathB] = File(<< <<FileRef(<<"A">>)>>, <<FileRef(<<"@", Slash, "A">>)>> >>)

MutualBuilt == (MutualProject /\ phase = "built" /\ calls = 0) =>
                   DOMAIN nodes = {PathA, PathB}

\* C1: BuildTree (and DiscoverScopes) terminate on every project, cyclic
\* ones included: each step of a running call lowers a well-founded measure
\* and a running call is never stuck; every processed path has exactly one
\* node, created once; entrypoint A <-> B yields the node map {A, B}.
C1_TerminatesOneNodePerPath ==
    /\ [][Progress]_vars
    /\ [](CanGoOn /\ OnePerPath /\ MutualBuilt)

\* the mutual cycle was walked: A holds B, B holds A, two nodes
C1_Witness ==
    /\ MutualProject
    /\ phase = "built"
    /\ DOMAIN nodes = {PathA, PathB}
    /\ nodes[PathA].Children = <<PathB>>
    /\ nodes[PathB].Children = <<PathA>>

(***************************************************************************)
(* C2: the depth bound.                                                    *)
(***************************************************************************)
\* the texts a file pattern matches in a content, line by line
RECURSIVE LineFileVals(_)
LineFileVals(line) ==
    IF line = <<>> THEN <<>>
    ELSE (IF Head(line).re = "file_re" THEN <<Head(line).val>> ELSE <<>>)
         \o LineFileVals(Tail(line))

RECURSIVE ContentFileVals(_)
ContentFileVals(content) ==
    IF content = <<>> THEN <<>>
    ELSE LineFileVals(Head(content)) \o ContentFileVals(Tail(content))

\* the values of the file references a node holds, in order
RECURSIVE FileRefVals(_)
FileRefVals(refs) ==
    IF refs = <<>> THEN <<>>
    ELSE (IF Head(refs).Type = "file" THEN <<Head(refs).Value>> ELSE <<>>)
         \o FileRefVals(Tail(refs))

\* F1 -> F2 -> ... : every file but the last references the next one only
PureChain ==
    /\ PathF(1) \in DOMAIN disk
    /\ \A i \in 1..(ChainLen - 1) :
          disk[PathF(i)] = File(<< <<FileRef(<<FName[i + 1]>>)>> >>)

ChainBuilt ==
    (PureChain /\ phase = "built" /\ calls = 0) =>
        /\ DOMAIN nodes = {PathF(i) : i \in 1..MaxDepth}
        /\ \A i \in 1..MaxDepth : nodes[PathF(i)].Depth = i
        /\ FileRefVals(nodes[PathF(MaxDepth)].References) = <<<<FName[MaxDepth + 1]>>>>

\* C2: no node is deeper than 5; a node at depth 5 has no children, yet its
\* references list holds every file reference of its content; a chain of
\* more than 5 files gives the 5 nodes F1..F5, the reference to F6 being
\* recorded on F5.
C2_DepthBound ==
    /\ \A q \in DOMAIN nodes :
          /\ nodes[q].Depth <= MaxDepth
          /\ nodes[q].Depth = MaxDepth =>
                /\ nodes[q].Children = <<>>
                /\ FileRefVals(nodes[q].References) = ContentFileVals(nodes[q].Content)
    /\ ChainBuilt

\* the chain was built: F5 sits at depth 5 and holds the reference to F6,
\* which exists on disk and has no node
C2_Witness ==
    /\ PureChain
    /\ phase = "built"
    /\ calls = 0
    /\ nodes[PathF(MaxDepth)].Depth = MaxDepth
    /\ nodes[PathF(MaxDepth)].Children = <<>>
    /\ Len(nodes[PathF(MaxDepth)].References) = 1
    /\ CanRead(disk, PathF(MaxDepth + 1))
    /\ PathF(MaxDepth + 1) \notin DOMAIN nodes

(***************************************************************************)
(* C3: several references of one file to the same target.                  *)
(***************************************************************************)
\* how often x occurs in the sequence
RECURSIVE Count(_, _)
Count(seq, x) ==
    IF seq = <<>> THEN 0
    ELSE (IF Head(seq) = x THEN 1 ELSE 0) + Count(Tail(seq), x)

\* the positions of the file references of the node that resolved to t
ResolvedTo(node, t) ==
    {i \in 1..Len(node.References) :
        /\ node.References[i].Type = "file"
        /\ node.References[i].Resolved
        /\ node.References[i].Target = t}

\* the targets two or more file references of the node resolved to
SharedTargets(node) ==
    {t \in {node.References[i].Target : i \in 1..Len(node.References)} :
        Cardinality(ResolvedTo(node, t)) >= 2}

\* the statement as the claim makes it: the shared target is a child exactly
\* once and lies one level below the referencing node
C3_Original ==
    phase = "built" =>
        \A q \in DOMAIN nodes : \A t \in SharedTargets(nodes[q]) :
            /\ Count(nodes[q].Children, t) = 1
            /\ t \in DOMAIN nodes
            /\ nodes[t].Depth = nodes[q].Depth + 1

\* C3 (amended): a target T that two or more file references of a node N
\* resolved to appears at most once in N.children: exactly once if T has a
\* node, not at all if T could not be read; every occurrence stays in
\* N.references; the child lies at depth N.depth + 1 if N is its parent,
\* and else keeps the depth of its first discovery, one below its parent.
C3_SharedTargetOnce ==
    phase = "built" =>
        \A q \in DOMAIN nodes :
            /\ FileRefVals(nodes[q].References) = ContentFileVals(nodes[q].Content)
            /\ \A t \in SharedTargets(nodes[q]) :
                  /\ Count(nodes[q].Children, t) = (IF t \in DOMAIN nodes THEN 1 ELSE 0)
                  /\ t \in DOMAIN nodes =>
                        /\ nodes[t].Parent = q => nodes[t].Depth = nodes[q].Depth + 1
                        /\ nodes[t].Parent \in DOMAIN nodes =>
                              nodes[t].Depth = nodes[nodes[t].Parent].Depth + 1
                        /\ nodes[t].Parent \notin DOMAIN nodes => nodes[t].Depth = 1

\* B holds two references that resolved to the entrypoint A; A is B's child
\* once, but was discovered first from the root and stays at depth 1
C3_Witness ==
    /\ phase = "built"
    /\ PathB \in DOMAIN nodes
    /\ PathA \in SharedTargets(nodes[PathB])
    /\ Count(nodes[PathB].Children, PathA) = 1
    /\ nodes[PathA].Depth = 1
    /\ nodes[PathB].Depth = 2
    /\ nodes[PathA].Parent = RootParent

(***************************************************************************)
(* C4: the keys of the node map and the paths under the root.              *)
(***************************************************************************)
\* the paths reached from the paths S by following children links
RECURSIVE ChildClosure(_)
ChildClosure(S) ==
    LET next == S \cup UNION {Range(nodes[q].Children) : q \in S \cap DOMAIN nodes}
    IN IF next = S THEN S ELSE ChildClosure(next)

UnderRoot == ChildClosure(Range(root.Children))

\* the nodes DiscoverScopes processed on demand (parent nil)
Parentless == {q \in DOMAIN nodes : nodes[q].Parent = NilParent}

\* the statement as the claim makes it
C4_Original == phase = "built" => DOMAIN nodes = UnderRoot

\* C4 (amended): when BuildTree has returned and no DiscoverScopes has run,
\* the keys of the node map are exactly the paths reachable from the root by
\* children links.  After DiscoverScopes calls every reachable path is still
\* a key, but a key need only be reachable from the root or from a subagent
\* entrypoint that DiscoverScopes processed on demand, which has no parent
\* and is no child of the root.
C4_KeysAndReachability ==
    phase = "built" =>
        /\ calls = 0 => DOMAIN nodes = UnderRoot
        /\ UnderRoot \subseteq DOMAIN nodes
        /\ DOMAIN nodes = UnderRoot \cup ChildClosure(Parentless)
        /\ Parentless \cap Range(root.Children) = {}

\* DiscoverScopes has processed x.md on demand: it is a key with a child of
\* its own, and neither is under the root
C4_Witness ==
    /\ phase = "built"
    /\ calls >= 1
    /\ PathX \in Parentless
    /\ PathX \notin UnderRoot
    /\ nodes[PathX].Children # <<>>
    /\ UnderRoot # {}

(***************************************************************************)
(* C5: resolved means the target existed when the reference was resolved.  *)
(***************************************************************************)
\* the file references a step stores or changes, as [q, i]: reference i of
\* the node q
Touched ==
    {x \in UNION {{[q |-> q, i |-> i] : i \in 1..Len(nodes'[q].References)} :
                     q \in DOMAIN nodes'} :
        /\ nodes'[x.q].References[x.i].Type = "file"
        /\ \/ x.q \notin DOMAIN nodes
           \/ nodes[x.q].References[x.i] # nodes'[x.q].References[x.i]}

\* a reference is stored with resolved set exactly if os.Stat finds its
\* target on the disk of that moment
ResolvedAsOnDisk ==
    \A x \in Touched :
        LET ref == nodes'[x.q].References[x.i]
        IN /\ ref.Resolved <=> Stat(disk, ref.Target)
           /\ x.q \in DOMAIN nodes =>
                 /\ nodes[x.q].References[x.i].Target = <<>>
                 /\ ~nodes[x.q].References[x.i].Resolved
                 /\ ref.Target # <<>>

\* C5: for every file reference stored in a node, resolved is true if and
\* only if its target is a path that existed on disk (os.Stat succeeded)
\* when the reference was resolved; a reference is resolved at most once and
\* a reference never resolved has no target and resolved = false.
C5_ResolvedIffExisted ==
    /\ [][ResolvedAsOnDisk]_vars
    /\ [](\A q \in DOMAIN nodes : \A i \in 1..Len(nodes[q].References) :
             nodes[q].References[i].Resolved =>
                 /\ nodes[q].References[i].Type = "file"
                 /\ nodes[q].References[i].Target # <<>>)

\* one reference was resolved to a file that has been deleted since, and
\* another was resolved to a path where nothing was
C5_Witness ==
    \E q \in DOMAIN nodes : \E i, j \in 1..Len(nodes[q].References) :
        /\ nodes[q].References[i].Resolved
        /\ ~Stat(disk, nodes[q].References[i].Target)
        /\ nodes[q].References[j].Type = "file"
        /\ ~nodes[q].References[j].Resolved
        /\ nodes[q].References[j].Target # <<>>

(***************************************************************************)
(* C8: the one error of BuildTree.                                         *)
(***************************************************************************)
\* no entrypoint pattern of the profile matches a path under the root
NothingMatches ==
    \A i \in 1..Len(cfg.Entrypoints) :
        ~\E q \in AllPaths(disk) :
            GlobMatch(RootPath \o <<Slash>> \o cfg.Entrypoints[i], q)

\* BuildTree decides between the error and the walk
ErrorIffNothingMatches ==
    phase = "init" =>
        /\ phase' = "error" <=> NothingMatches
        /\ phase' = "building" <=> ~NothingMatches
        /\ err' = (IF NothingMatches THEN "no configuration files found" ELSE "")

ReadAboutToFail ==
    /\ stack # <<>>
    /\ Top.pc = "enter"
    /\ Top.path \notin DOMAIN nodes
    /\ ~CanRead(disk, Top.path)

\* the failed read changes nothing but the caller's position: the loop of
\* the referencing file moves to its next reference, BuildTree and
\* DiscoverScopes to their next entrypoint
SkippedSilently ==
    (ReadAboutToFail /\ disk' = disk) =>
        /\ nodes' = nodes
        /\ root' = root
        /\ created' = created
        /\ err' = err
        /\ phase' = phase
        /\ entries' = entries
        /\ pending' = pending
        /\ subScopes' = subScopes
        /\ Len(stack') = Len(stack) - 1
        /\ Len(stack) > 1 =>
              stack' = [Pop EXCEPT ![Len(stack) - 1].i = stack[Len(stack) - 1].i + 1]

\* a node is registered only for a file that was read, as parsed or as stub
RegisteredWhenRead ==
    \A q \in DOMAIN nodes' \ DOMAIN nodes :
        /\ CanRead(disk, q)
        /\ nodes'[q].Content = disk[Clean(q)].content
        /\ nodes'[q].Parsed = (IF disk[Clean(q)].parses THEN "parsed" ELSE "stub")

\* the walk is complete: every file reference of a node above depth 5 was
\* handled, no entrypoint is left, and there is no error
WalkComplete ==
    phase = "built" =>
        /\ err = ""
        /\ entries = <<>> /\ pending = <<>> /\ stack = <<>>
        /\ \A q \in DOMAIN nodes :
              DepthAllows(nodes[q].Depth) =>
                  \A i \in 1..Len(nodes[q].References) :
                      nodes[q].References[i].Type = "file" =>
                          nodes[q].References[i].Target # <<>>

ChildrenHaveNodes ==
    /\ Range(root.Children) \subseteq DOMAIN nodes
    /\ \A q \in DOMAIN nodes : Range(nodes[q].Children) \subseteq DOMAIN nodes

\* C9: when a candidate file cannot be read, no node is registered for it,
\* it enters no children list, the caller goes on with its next reference
\* or entrypoint, and BuildTree and DiscoverScopes end without error; a
\* file that is read but cannot be parsed gets a node with a stub.
C9_ReadFailureSkipped ==
    /\ [][SkippedSilently /\ RegisteredWhenRead]_vars
    /\ [](WalkComplete /\ ChildrenHaveNodes)

\* A could not be parsed and holds a stub; its first reference resolved to
\* B, which could not be read and has no node; its second reference was
\* still handled
C9_Witness ==
    /\ phase = "built"
    /\ PathA \in DOMAIN nodes
    /\ nodes[PathA].Parsed = "stub"
    /\ Len(nodes[PathA].References) = 2
    /\ nodes[PathA].References[1].Resolved
    /\ nodes[PathA].References[1].Target = PathB
    /\ PathB \notin DOMAIN nodes
    /\ nodes[PathA].References[2].Resolved
    /\ nodes[PathA].Children = <<PathA>>

(***************************************************************************)
(* C10: the nodes of a subagent scope.                                     *)
(***************************************************************************)
\* the nodes one edge away from the node q: the targets of its resolved
\* file references and its children
EdgesFrom(q) ==
    {nodes[q].References[i].Target :
        i \in {j \in 1..Len(nodes[q].References) :
                  /\ nodes[q].References[j].Type = "file"
                  /\ nodes[q].References[j].Resolved}}
    \cup Range(nodes[q].Children)

\* the nodes reachable from the nodes S
RECURSIVE ReachSet(_)
ReachSet(S) ==
    LET next == S \cup (UNION {EdgesFrom(q) : q \in S} \cap DOMAIN nodes)
    IN IF next = S THEN S ELSE ReachSet(next)

\* the scopes of subagents: those being collected and those returned
SubagentScopes ==
    {sc \in Range(subScopes) \cup Range(scopes) : sc.Type = "subagent"}

\* DiscoverScopes is about to collect the scope of its next entrypoint
AboutToCollect ==
    /\ phase = "discovering"
    /\ stack = <<>>
    /\ pending # <<>>
    /\ Head(pending).tried \/ Head(pending).Entrypoint \in DOMAIN nodes

\* C10: a subagent entrypoint E that is no key of the node map is processed
\* on demand, so that a readable E is a key when its scope is collected; the
\* nodes of the scope are exactly the nodes reachable from E over resolved
\* file references and children, E first, each node once; a file that is
\* not reachable from E is not among them.
C10_SubagentScopeClosure ==
    /\ [][/\ (phase = "discovering" /\ stack = <<>> /\ stack' # <<>>) =>
                /\ Head(pending).Entrypoint \notin DOMAIN nodes
                /\ stack' = <<Frame(Head(pending).Entrypoint, NilParent, 1)>>
          /\ (phase = "discovering" /\ stack # <<>> /\ stack' = <<>>) =>
                /\ Head(pending).tried
                /\ CanRead(disk, Head(pending).Entrypoint) =>
                      /\ Head(pending).Entrypoint \in DOMAIN nodes'
                      /\ nodes'[Head(pending).Entrypoint].Parent = NilParent]_vars
    /\ [](AboutToCollect /\ CanRead(disk, Head(pending).Entrypoint) =>
             Head(pending).Entrypoint \in DOMAIN nodes)
    /\ [](\A sc \in SubagentScopes :
             /\ sc.Entrypoint \in DOMAIN nodes
             /\ sc.Nodes[1] = sc.Entrypoint
             /\ Cardinality(Range(sc.Nodes)) = Len(sc.Nodes)
             /\ Range(sc.Nodes) = ReachSet({sc.Entrypoint})
             /\ sc.FilePaths = sc.Nodes)

\* x.md was processed on demand and its scope was returned: x.md first,
\* then what it references; y.md lies beside it with a node of its own and
\* is not in the scope
C10_Witness ==
    /\ phase = "built"
    /\ calls >= 1
    /\ \E sc \in Range(scopes) :
          /\ sc.Type = "subagent"
          /\ sc.Entrypoint = PathX
          /\ nodes[PathX].Parent = NilParent
          /\ Len(sc.Nodes) >= 3
          /\ PathY \in DOMAIN nodes
          /\ PathY \notin Range(sc.Nodes)

(***************************************************************************)
(* C11: the nodes of the main scope.                                       *)
(***************************************************************************)
\* the closures of the paths ps, one after the other
RECURSIVE ClosuresOf(_)
ClosuresOf(ps) ==
    IF ps = <<>> THEN <<>>
    ELSE collectReachableNodes(nodes, Head(ps)) \o ClosuresOf(Tail(ps))

\* the sequence without the later occurrences of its elements
FirstOccurrences(seq) ==
    LET keep == {i \in 1..Len(seq) : \A j \in 1..(i - 1) : seq[j] # seq[i]}
        RECURSIVE Pick(_)
        Pick(i) == IF i > Len(seq) THEN <<>>
                   ELSE (IF i \in keep THEN <<seq[i]>> ELSE <<>>) \o Pick(i + 1)
    IN Pick(1)

MainScopes == {i \in 1..Len(scopes) : scopes[i].Type = "main"}

\* CLAUDE.md -> style.md, here A -> B, B a leaf, no subagents, and no file
\* has been removed
RootAndLeaf ==
    /\ deletes = 0
    /\ cfg.Entrypoints = << <<"A">> >>
    /\ DOMAIN disk = {PathA, PathB}
    /\ disk[PathA] = File(<< <<FileRef(<<"B">>)>> >>)
    /\ disk[PathB].content = <<>>
    /\ disk[PathB].readable

\* C11: the nodes of the main scope are the reachable closures of the
\* children of the root, in the order of the children, every path once at
\* the place of its first encounter; there is a main scope exactly if that
\* list is not empty; for a root file A that references the leaf B the tree
\* has the 2 nodes and the one scope returned is main with nodes [A, B].
C11_MainScopeNodes ==
    (phase = "built" /\ calls >= 1) =>
        LET expected == FirstOccurrences(ClosuresOf(root.Children))
        IN /\ MainScopes = (IF expected = <<>> THEN {} ELSE {1})
           /\ \A i \in MainScopes :
                 /\ scopes[i].Nodes = expected
                 /\ scopes[i].FilePaths = expected
                 /\ Range(scopes[i].Nodes) = ReachSet(Range(root.Children))
           /\ RootAndLeaf =>
                 /\ DOMAIN nodes = {PathA, PathB}
                 /\ Len(scopes) = 1
                 /\ scopes[1].Nodes = <<PathA, PathB>>

\* two entrypoints, the first referencing the second: the main scope lists
\* both once, in the order of the first encounter
C11_Witness ==
    /\ phase = "built"
    /\ calls >= 1
    /\ Len(root.Children) >= 2
    /\ Len(scopes) >= 1
    /\ scopes[1].Type = "main"
    /\ scopes[1].Nodes = <<PathA, PathB>>
    /\ Len(ClosuresOf(root.Children)) > 2

(***************************************************************************)
(* C12: a file shared by the main entrypoint and a subagent.               *)
(***************************************************************************)
\* the node q holds a file reference that names the file t
RefersTo(q, t) ==
    \E i \in 1..Len(nodes[q].References) :
        /\ nodes[q].References[i].Type = "file"
        /\ resolveFilePath(disk, RootPath, q, nodes[q].References[i].Value) = t

\* the subagent files DiscoverScopes finds and can read
ReadableAgents == {q \in {PathX, PathY} : CanRead(disk, q)}

\* a main entrypoint and a subagent entrypoint both reference the readable
\* file: [M, A, S]
SharedFiles ==
    {x \in [M : Range(root.Children), A : ReadableAgents \cap DOMAIN nodes,
            S : {q \in DOMAIN disk : CanRead(disk, q)}] :
        RefersTo(x.M, x.S) /\ RefersTo(x.A, x.S)}

InScope(type, entrypoint, t) ==
    \E i \in 1..Len(scopes) :
        /\ scopes[i].Type = type
        /\ scopes[i].Entrypoint = entrypoint
        /\ t \in Range(scopes[i].Nodes)

\* C12: when a main entrypoint M and a subagent entrypoint A both reference
\* the existing file S, the scopes DiscoverScopes returns hold S in the main
\* scope and in the scope of A.
C12_SharedInBothScopes ==
    (phase = "built" /\ calls >= 1 /\ deletes = 0) =>
        \A x \in SharedFiles :
            /\ InScope("main", RootPath, x.S)
            /\ InScope("subagent", x.A, x.S)

(***************************************************************************)
(* C13: one scope per entrypoint, the reference's name first.              *)
(***************************************************************************)
\* the names under which subagent references of the tree lead to the path
RefNames(path) ==
    UNION {{nodes[q].References[i].Value :
               i \in {j \in 1..Len(nodes[q].References) :
                         /\ nodes[q].References[j].Type = "subagent"
                         /\ SubagentPath(disk, RootPath,
                                         nodes[q].References[j].Value) = path}} :
           q \in DOMAIN nodes}

\* the name the directory walk gives the file .claude/agents/<name>.md
DirName(path) == TrimSuffix(Base(path), <<".md">>)

\* DiscoverScopes has collected its entrypoints: no path twice, and a path
\* that a subagent reference leads to carries the name of a reference
NamedByReference ==
    (phase = "built" /\ phase' = "discovering") =>
        /\ \A i, j \in 1..Len(pending') :
              pending'[i].Entrypoint = pending'[j].Entrypoint => i = j
        /\ \A i \in 1..Len(pending') :
              LET e == pending'[i].Entrypoint
              IN /\ Stat(disk, e)
                 /\ pending'[i].Name \in
                       (IF RefNames(e) # {} THEN RefNames(e) ELSE {DirName(e)})

\* every scope stems from a collected entrypoint and keeps its name
ScopeFromPending ==
    (phase = "discovering" /\ Len(subScopes') > Len(subScopes)) =>
        /\ subScopes'[Len(subScopes')].Entrypoint = Head(pending).Entrypoint
        /\ subScopes'[Len(subScopes')].Name = Head(pending).Name

DistinctEntrypoints(scs) ==
    \A i, j \in 1..Len(scs) : scs[i].Entrypoint = scs[j].Entrypoint => i = j

\* C13: no two scopes that one DiscoverScopes call returns have the same
\* entrypoint, also when a subagent file is found through a subagent
\* reference and through the walk of .claude/agents; the scope then carries
\* the name the reference gave.
C13_OneScopePerEntrypoint ==
    /\ [][NamedByReference /\ ScopeFromPending]_vars
    /\ [](DistinctEntrypoints(scopes) /\ DistinctEntrypoints(subScopes))

\* x.md was found through the reference "./x" and in the agents directory:
\* one scope, named as the reference names it
C13_Witness ==
    /\ phase = "built"
    /\ calls >= 1
    /\ RefNames(PathX) = {<<".", Slash, "x">>}
    /\ DirName(PathX) = <<"x">>
    /\ Cardinality({i \in 1..Len(scopes) : scopes[i].Entrypoint = PathX}) = 1
    /\ \E i \in 1..Len(scopes) :
          scopes[i].Entrypoint = PathX /\ scopes[i].Name = <<".", Slash, "x">>

(***************************************************************************)
(* C14: the order of the scopes returned.                                  *)
(***************************************************************************)
\* the entrypoint e1 is discovered before e2: the entrypoints that subagent
\* references lead to come first, then the agents directory in the order of
\* os.ReadDir
DiscoveredBefore(e1, e2) ==
    \/ RefNames(e1) # {} /\ RefNames(e2) = {}
    \/ /\ RefNames(e1) = {} /\ RefNames(e2) = {}
       /\ StrLess(Base(e1), Base(e2))

\* main, if any, comes first; the subagent scopes follow as discovered
InDiscoveryOrder ==
    (phase = "built" /\ calls >= 1 /\ deletes = 0) =>
        /\ \A i \in 1..Len(scopes) : scopes[i].Type = "main" => i = 1
        /\ \A i, j \in 1..Len(scopes) :
              (i < j /\ scopes[i].Type = "subagent" /\ scopes[j].Type = "subagent")
                  => DiscoveredBefore(scopes[i].Entrypoint, scopes[j].Entrypoint)

\* a second call on the same project returns what the first returned
SameScopesAgain ==
    (phase = "discovering" /\ phase' = "built" /\ calls >= 1 /\ deletes = 0)
        => scopes' = scopes

\* C14: DiscoverScopes returns the main scope first, then the subagent
\* scopes in the order in which their entrypoints were discovered, so that
\* two calls on the same project return the same sequence.
C14_ScopesInDiscoveryOrder ==
    /\ [][SameScopesAgain]_vars
    /\ []InDiscoveryOrder

(***************************************************************************)
(* C18: registered nodes stay as they were registered.                     *)
(***************************************************************************)
\* the node of q is still the node registered for q, with the same path,
\* content, depth and parent
NodeKept(q) ==
    /\ q \in DOMAIN nodes'
    /\ created'[q] = created[q]
    /\ nodes'[q].Path = nodes[q].Path
    /\ nodes'[q].Content = nodes[q].Content
    /\ nodes'[q].Depth = nodes[q].Depth
    /\ nodes'[q].Parent = nodes[q].Parent

\* the frames of the processFile calls that are in their reference loop
InLoop(st) == {i \in 1..Len(st) : st[i].pc = "loop"}

\* a step changes a registered node only while the processFile call that
\* registered it is in its reference loop
ChangedOnlyInOwnCall ==
    \A q \in DOMAIN nodes :
        nodes'[q] # nodes[q] => \E i \in InLoop(stack) : stack[i].path = q

\* a processFile call enters its reference loop for a path that had no node
LoopOnlyForNewNode ==
    \A i \in InLoop(stack') :
        (i \notin InLoop(stack)) => stack'[i].path \notin DOMAIN nodes

\* between the calls no processFile call is under way
NoCallBetween == (phase \in {"init", "built", "error"}) => stack = <<>>

\* C18: a node registered for a path is never removed or replaced and keeps
\* its path, content, depth and parent; DiscoverScopes changes no node that
\* existed before the call (a node changes only inside the processFile call
\* that registered it, and no such call spans the start of DiscoverScopes).
C18_NodesNeverReplaced ==
    /\ [][(\A q \in DOMAIN nodes : NodeKept(q))
           /\ ChangedOnlyInOwnCall /\ LoopOnlyForNewNode]_vars
    /\ []NoCallBetween

\* DiscoverScopes has added a node to those BuildTree registered, and a
\* file was reached again after its node was registered
C18_Witness ==
    /\ phase = "built"
    /\ calls >= 1
    /\ \E q \in DOMAIN nodes : nodes[q].Parent = NilParent
    /\ \E q \in DOMAIN nodes : nodes[q].Parent = RootParent
    /\ \E q, t \in DOMAIN nodes :
          /\ nodes[t].Parent # q
          /\ \E i \in 1..Len(nodes[q].Children) : nodes[q].Children[i] = t

(***************************************************************************)
(* C19: the root of the tree.                                              *)
(***************************************************************************)
\* BuildTree has created the root
RootCreated == phase \in {"building", "built", "discovering"}

\* C19: the root is a synthetic node with empty path and depth 0 that is no
\* key of the node map, and every node among the root's children has depth 1.
C19_SyntheticRoot ==
    RootCreated =>
        /\ root.Path = <<>>
        /\ root.Depth = 0
        /\ root.Path \notin DOMAIN nodes
        /\ \A i \in 1..Len(root.Children) : nodes[root.Children[i]].Depth = 1

(***************************************************************************)
(* C20: the shape of the children links.                                   *)
(***************************************************************************)
\* the nodes reachable from q by one or more children links
Descendants(q) == ChildClosure(Range(nodes[q].Children))

\* the statement as the claim makes it
C20_Original == \A q \in DOMAIN nodes : q \notin Descendants(q)

\* the children link from p to c is the one made when c was registered
TreeLink(p, c) == nodes[c].Parent = p

\* the nodes reachable from q by one or more such links
RECURSIVE TreeClosure(_)
TreeClosure(S) ==
    LET next == S \cup {c \in DOMAIN nodes : nodes[c].Parent \in S}
    IN IF next = S THEN S ELSE TreeClosure(next)

TreeDescendants(q) == TreeClosure({c \in DOMAIN nodes : TreeLink(q, c)})

\* a node is registered one level below the node that first reached it
DepthBelowParent ==
    \A c \in DOMAIN nodes :
        IF nodes[c].Parent \in {RootParent, NilParent}
        THEN nodes[c].Depth = 1
        ELSE /\ nodes[c].Parent \in DOMAIN nodes
             /\ nodes[c].Depth = nodes[nodes[c].Parent].Depth + 1

\* a step adds a children link either to the node it has just seen
\* registered under that parent or to a node that was registered before
LinkKinds ==
    \A p \in DOMAIN nodes :
        (p \in DOMAIN nodes' /\ Len(nodes'[p].Children) > Len(nodes[p].Children))
            => LET c == nodes'[p].Children[Len(nodes'[p].Children)]
               IN /\ c \in DOMAIN nodes
                  /\ TreeLink(p, c) \/ AlreadyProcessed(c)

\* C20 (amended): the children links made when a node is registered form a
\* forest (a node lies one level below its parent, so no node reaches itself
\* by them); every other children link leads to a node that was registered
\* already, and such a link may close a cycle.
C20_ForestPlusBackLinks ==
    /\ [][LinkKinds]_vars
    /\ [](DepthBelowParent /\ \A q \in DOMAIN nodes : q \notin TreeDescendants(q))

\* A and B reference each other: B is A's child by registration, A is B's
\* child by the return of the existing node, and each reaches itself
C20_Witness ==
    /\ MutualProject
    /\ phase = "built"
    /\ nodes[PathA].Children = <<PathB>>
    /\ nodes[PathB].Children = <<PathA>>
    /\ TreeLink(PathA, PathB)
    /\ ~TreeLink(PathB, PathA)
    /\ PathA \in Descendants(PathA)

(***************************************************************************)
(* The frontmatter lists.  Here a string is a sequence of characters.  A   *)
(* frontmatter is nil or a map from keys to values; a value is a string,   *)
(* a list of strings ([]string) or a list of untyped items                 *)
(* ([]interface{}), each item holding a string.                            *)
(***************************************************************************)
MaxEntries == 2      \* entries of a frontmatter list

Space == " "
Comma == ","

NilFrontmatter == [nil |-> TRUE]

StringValue(str) == [kind |-> "string", str |-> str]
StringsValue(strs) == [kind |-> "[]string", strs |-> strs]
ItemsValue(strs) ==
    [kind |-> "[]interface{}",
     items |-> [i \in 1..Len(strs) |-> [kind |-> "string", val |-> strs[i]]]]

\* strings.Split(str, ","): the pieces between the commas, empty ones included
RECURSIVE Split(_, _)
Split(str, piece) ==
    IF str = <<>> THEN <<piece>>
    ELSE IF Head(str) = Comma THEN <<piece>> \o Split(Tail(str), <<>>)
    ELSE Split(Tail(str), Append(piece, Head(str)))

RECURSIVE TrimLeft(_)
TrimLeft(str) ==
    IF str # <<>> /\ Head(str) = Space THEN TrimLeft(Tail(str)) ELSE str

RECURSIVE TrimRight(_)
TrimRight(str) ==
    IF str # <<>> /\ str[Len(str)] = Space
    THEN TrimRight(SubSeq(str, 1, Len(str) - 1)) ELSE str

\* a slip: only the leading whitespace is removed
TrimSpace_LeftOnly(str) == TrimLeft(str)

\* strings.TrimSpace
TrimSpace(str) == TrimRight(TrimLeft(str))

\* every entry trimmed, the empty ones dropped, the order kept
RECURSIVE TrimAndDrop(_)
TrimAndDrop(strs) ==
    IF strs = <<>> THEN <<>>
    ELSE (IF TrimSpace(Head(strs)) # <<>> THEN <<TrimSpace(Head(strs))>> ELSE <<>>)
         \o TrimAndDrop(Tail(strs))

\* the normalization of the value of one key
extractListFromFrontmatter(frontmatter, key) ==
    IF frontmatter = NilFrontmatter THEN <<>>
    ELSE IF key \notin DOMAIN frontmatter THEN <<>>
    ELSE LET v == frontmatter[key]
         IN IF v.kind = "string" THEN TrimAndDrop(Split(v.str, <<>>))
            ELSE IF v.kind = "[]string" THEN TrimAndDrop(v.strs)
            ELSE TrimAndDrop([i \in 1..Len(v.items) |-> v.items[i].val])

extractToolsFromFrontmatter(frontmatter) ==
    extractListFromFrontmatter(frontmatter, "tools")

extractSkillsFromFrontmatter(frontmatter) ==
    extractListFromFrontmatter(frontmatter, "skills")

\* the entries a list may carry: plain, padded, blank and empty ones
EntryMenu ==
    {<<>>, <<"a">>, <<"a", "b">>, <<Space, "a">>, <<"b", Space>>, <<Space>>,
     <<Space, "a", Space, "b", Space>>}

RECURSIVE EntryLists(_)
EntryLists(n) ==
    IF n = 0 THEN {<<>>}
    ELSE EntryLists(n - 1)
         \cup {Append(es, e) : es \in {l \in EntryLists(n - 1) : Len(l) = n - 1},
                               e \in EntryMenu}

\* the entries joined by commas
RECURSIVE CommaJoined(_)
CommaJoined(es) ==
    IF es = <<>> THEN <<>>
    ELSE IF Len(es) = 1 THEN es[1]
    ELSE es[1] \o <<Comma>> \o CommaJoined(Tail(es))

Forms == {"string", "[]string", "[]interface{}"}

\* the value that carries the entries es in the given form
AsForm(form, es) ==
    IF form = "string" THEN StringValue(CommaJoined(es))
    ELSE IF form = "[]string" THEN StringsValue(es)
    ELSE ItemsValue(es)

NameValue == StringValue(<<"a">>)

\* a frontmatter with a "name" and the key holding the value
WithKey(key, value) ==
    [k \in {"name", key} |-> IF k = key THEN value ELSE NameValue]

ListKeys == {"tools", "skills"}

InitFrontmatter ==
    /\ disk = EmptyMap
    /\ cfg = Profile(<<>>)
    /\ InitProgram
    /\ resIn = Unset
    /\ resOut = Unset
    /\ fmIn \in {[frontmatter |-> WithKey(key, AsForm(form, es)), key |-> key,
                  form |-> form, carries |-> es] :
                     key \in ListKeys, form \in Forms, es \in EntryLists(MaxEntries)}
               \cup {[frontmatter |-> NilFrontmatter, key |-> key,
                      form |-> "nil", carries |-> <<>>] : key \in ListKeys}
               \cup {[frontmatter |-> WithKey("name", NameValue), key |-> key,
                      form |-> "no key", carries |-> <<>>] : key \in ListKeys}
    /\ fmOut = Unset
    /\ exIn = Unset
    /\ exOut = NoCall

Extract ==
    /\ fmOut = Unset
    /\ fmOut' = IF fmIn.key = "tools"
                THEN extractToolsFromFrontmatter(fmIn.frontmatter)
                ELSE extractSkillsFromFrontmatter(fmIn.frontmatter)
    /\ UNCHANGED <<disk, cfg, phase, err, root, nodes, entries, stack, created,
                   pending, subScopes, scopes, calls, deletes, resIn, resOut,
                   mainChildren, fmIn,
                   exIn, exOut, issues, walk>>

SpecFrontmatter == InitFrontmatter /\ [][Extract]_vars

(***************************************************************************)
(* C17: the normalization of frontmatter lists.                            *)
(***************************************************************************)
\* the string without its leading and trailing spaces
Trimmed(str) ==
    LET solid == {i \in 1..Len(str) : str[i] # Space}
    IN IF solid = {} THEN <<>>
       ELSE SubSeq(str, CHOOSE i \in solid : \A j \in solid : i <= j,
                        CHOOSE i \in solid : \A j \in solid : j <= i)

\* the names the entries carry, in order
NamesOf(es) ==
    LET kept == {i \in 1..Len(es) : Trimmed(es[i]) # <<>>}
        nth(k) == CHOOSE i \in kept : Cardinality({j \in kept : j < i}) = k - 1
    IN [k \in 1..Cardinality(kept) |-> Trimmed(es[nth(k)])]

\* C17: the normalization used for "skills" and "tools" returns, for a
\* comma-separated string, a list of strings and a list of untyped items
\* that carry the same entries, the same sequence: the entries in order,
\* trimmed of whitespace, without the empty ones; a nil frontmatter, a
\* missing key and an empty string yield the empty sequence.
C17_FrontmatterNormalization ==
    fmOut # Unset =>
        /\ fmOut = NamesOf(fmIn.carries)
        /\ fmIn.form \in Forms =>
              \A form \in Forms :
                 extractListFromFrontmatter(
                     WithKey(fmIn.key, AsForm(form, fmIn.carries)), fmIn.key) = fmOut
        /\ fmIn.form \in {"nil", "no key"} => fmOut = <<>>
        /\ (fmIn.form = "string" /\ fmIn.frontmatter[fmIn.key].str = <<>>)
              => fmOut = <<>>

\* "a , b " as a string: a padded entry was trimmed and two names came out
C17_Witness ==
    /\ fmOut # Unset
    /\ fmIn.form = "string"
    /\ fmIn.key = "skills"
    /\ fmIn.carries = << <<Space, "a", Space, "b", Space>>, <<"b", Space>> >>
    /\ fmOut = << <<"a", Space, "b">>, <<"b">> >>

(***************************************************************************)
(* DiscoverScopes with commands and skills: the command and skill files    *)
(* are found by a walk of their directories, processed on demand and       *)
(* turned into scopes nested under the main scope; a subagent scope gets   *)
(* the skill scopes its frontmatter declares.  A scope is [Type, Name,     *)
(* Entrypoint, Nodes, FilePaths, DeclaredTools, DeclaredSkills, Children]. *)
(***************************************************************************)
CommandsDir(rootPath) == Join(<<rootPath, <<".claude">>, <<"commands">>>>)

SkillsDir(rootPath) == Join(<<rootPath, <<".claude">>, <<"skills">>>>)

\* strings.ToLower on a file name
ToLower(name) == [i \in 1..Len(name) |-> IF name[i] = "SKILL" THEN "skill" ELSE name[i]]

\* a slip: a command is named after its file alone
CommandName_Base(commandsDir, path) == TrimSuffix(Base(path), <<".md">>)

\* the path relative to the commands directory, the extension stripped
CommandName(commandsDir, path) ==
    TrimSuffix(TrimPrefix(path, commandsDir \o <<Slash>>), <<".md">>)

Candidate(type, name, entrypoint) ==
    [Type |-> type, Name |-> name, Entrypoint |-> entrypoint, tried |-> FALSE]

\* .claude/commands/**/*.md: the walk of the commands directory
discoverCommands(d, rootPath) ==
    LET commandsDir == CommandsDir(rootPath)
        files == SortStrs({f \in DOMAIN d :
                              /\ HasPrefix(f, commandsDir \o <<Slash>>)
                              /\ HasSuffix(f, <<".md">>)})
    IN [i \in 1..Len(files) |->
           Candidate("command", CommandName(commandsDir, files[i]), files[i])]

\* the file of a skill directory whose name is SKILL.md in any case, or <<>>
SkillFile(d, dirPath) ==
    LET names == DirEntries(d, dirPath)
        hits == {i \in 1..Len(names) :
                    /\ ToLower(names[i]) = <<"skill", ".md">>
                    /\ Join(<<dirPath, names[i]>>) \in DOMAIN d}
    IN IF hits = {} THEN <<>>
       ELSE Join(<<dirPath, names[CHOOSE i \in hits : \A j \in hits : i <= j]>>)

\* .claude/skills/<name>.md or .claude/skills/<name>/SKILL.md
RECURSIVE FromSkillEntries(_, _, _)
FromSkillEntries(d, skillsDir, names) ==
    IF names = <<>> THEN <<>>
    ELSE LET name == Head(names)
             path == Join(<<skillsDir, name>>)
             here ==
                 IF IsDirOn(d, path)
                 THEN IF SkillFile(d, path) # <<>>
                      THEN <<Candidate("skill", name, SkillFile(d, path))>>
                      ELSE <<>>
                 ELSE IF HasSuffix(ToLower(name), <<".md">>)
                 THEN <<Candidate("skill", TrimSuffix(name, <<".md">>), path)>>
                 ELSE <<>>
         IN here \o FromSkillEntries(d, skillsDir, Tail(names))

discoverSkills(d, rootPath) ==
    LET skillsDir == SkillsDir(rootPath)
    IN IF IsDirOn(d, skillsDir)
       THEN FromSkillEntries(d, skillsDir, DirEntries(d, skillsDir))
       ELSE <<>>

\* the frontmatter the parser found in the file of a node
FrontmatterOf(d, ns, path) ==
    IF /\ ns[path].Parsed = "parsed"
       /\ path \in DOMAIN d
       /\ "frontmatter" \in DOMAIN d[path]
    THEN d[path].frontmatter
    ELSE NilFrontmatter

\* a slip: every skill is attached to every subagent
DeclaresSkill_Any(declared, sc) == sc.Type = "skill"

\* a skill scope whose name appears in the skills: declaration
DeclaresSkill(declared, sc) == sc.Type = "skill" /\ sc.Name \in Range(declared)

\* the already discovered skill scopes a subagent declares
RECURSIVE DeclaredChildren(_, _)
DeclaredChildren(declared, found) ==
    IF found = <<>> THEN <<>>
    ELSE (IF DeclaresSkill(declared, Head(found)) THEN <<Head(found)>> ELSE <<>>)
         \o DeclaredChildren(declared, Tail(found))

\* the walks of the directories, up to the loop over the candidates
DiscoverNested_Start ==
    /\ phase = "built"
    /\ calls < MaxCalls
    /\ \E order \in Perms(WithSubagentRefs(nodes)) :
          LET m == subagentEntrypoints(disk, RootPath, nodes, order)
          IN \E range \in Perms(DOMAIN m) :
                pending' = discoverSkills(disk, RootPath)
                           \o discoverCommands(disk, RootPath)
                           \o [i \in 1..Len(range) |->
                                  Candidate("subagent", m[range[i]], range[i])]
    /\ phase' = "nesting"
    /\ subScopes' = <<>>
    /\ mainChildren' = <<>>
    /\ UNCHANGED <<disk, cfg, err, root, nodes, entries, stack, created,
                   scopes, calls, deletes, resIn, resOut, fmIn, fmOut,
                   exIn, exOut, issues, walk>>

\* on-demand processing of a candidate that has no node
DiscoverNested_Process ==
    /\ phase = "nesting"
    /\ stack = <<>>
    /\ pending # <<>>
    /\ ~Head(pending).tried
    /\ Head(pending).Entrypoint \notin DOMAIN nodes
    /\ stack' = <<Frame(Head(pending).Entrypoint, NilParent, 1)>>
    /\ pending' = [pending EXCEPT ![1].tried = TRUE]
    /\ UNCHANGED <<disk, cfg, phase, err, root, nodes, entries, created,
                   subScopes, scopes, calls, deletes, resIn, resOut,
                   mainChildren, fmIn, fmOut,
                   exIn, exOut, issues, walk>>

\* the scope of a candidate: its reachable closure; a candidate that could
\* not be read is skipped
DiscoverNested_Scope ==
    /\ phase = "nesting"
    /\ stack = <<>>
    /\ pending # <<>>
    /\ Head(pending).tried \/ Head(pending).Entrypoint \in DOMAIN nodes
    /\ LET c == Head(pending)
           found == IF c.Entrypoint \in DOMAIN nodes
                    THEN ScopeNodes(nodes, c.Entrypoint) ELSE <<>>
           frontmatter == IF Len(found) > 0 /\ c.Type = "subagent"
                          THEN FrontmatterOf(disk, nodes, c.Entrypoint)
                          ELSE NilFrontmatter
           declared == extractSkillsFromFrontmatter(frontmatter)
           scope == [Type |-> c.Type,
                     Name |-> c.Name,
                     Entrypoint |-> c.Entrypoint,
                     Nodes |-> found,
                     FilePaths |-> PathsOf(nodes, found),
                     DeclaredTools |-> extractToolsFromFrontmatter(frontmatter),
                     DeclaredSkills |-> declared,
                     Children |-> IF c.Type = "subagent"
                                  THEN DeclaredChildren(declared, mainChildren)
                                  ELSE <<>>]
       IN /\ subScopes' = IF Len(found) > 0 /\ c.Type = "subagent"
                          THEN Append(subScopes, scope) ELSE subScopes
          /\ mainChildren' = IF Len(found) > 0 /\ c.Type # "subagent"
                             THEN Append(mainChildren, scope) ELSE mainChildren
    /\ pending' = Tail(pending)
    /\ UNCHANGED <<disk, cfg, phase, err, root, nodes, entries, stack,
                   created, scopes, calls, deletes, resIn, resOut, fmIn, fmOut,
                   exIn, exOut, issues, walk>>

\* the main scope, with the command and skill scopes as its children; it
\* is returned first if it has any nodes or children
DiscoverNested_Return ==
    /\ phase = "nesting"
    /\ stack = <<>>
    /\ pending = <<>>
    /\ LET found == MainNodes(nodes, root.Children, <<>>)
           mainScope == [Type |-> "main",
                         Name |-> <<"main">>,
                         Entrypoint |-> RootPath,
                         Nodes |-> found,
                         FilePaths |-> PathsOf(nodes, found),
                         DeclaredTools |-> <<>>,
                         DeclaredSkills |-> <<>>,
                         Children |-> mainChildren]
       IN scopes' = IF Len(found) > 0 \/ Len(mainChildren) > 0
                    THEN <<mainScope>> \o subScopes
                    ELSE subScopes
    /\ subScopes' = <<>>
    /\ phase' = "built"
    /\ calls' = calls + 1
    /\ UNCHANGED <<disk, cfg, err, root, nodes, entries, stack, created,
                   pending, deletes, resIn, resOut, mainChildren, fmIn, fmOut,
                   exIn, exOut, issues, walk>>

(***************************************************************************)
(* The projects with commands, skills and a subagent.                      *)
(***************************************************************************)
FileWith(content, frontmatter) ==
    [content |-> content, readable |-> TRUE, parses |-> TRUE,
     volatile |-> FALSE, frontmatter |-> frontmatter]

PathD == <<Slash, "r", Slash, ".claude", Slash, "commands", Slash, "d", ".md">>
PathGP == <<Slash, "r", Slash, ".claude", Slash, "commands", Slash, "g", Slash,
            "p", ".md">>
PathK == <<Slash, "r", Slash, ".claude", Slash, "skills", Slash, "k", ".md">>
PathSU == <<Slash, "r", Slash, ".claude", Slash, "skills", Slash, "s", Slash,
            "SKILL", ".md">>
PathSL == <<Slash, "r", Slash, ".claude", Slash, "skills", Slash, "s", Slash,
            "skill", ".md">>

Plain == FileWith(<<>>, NilFrontmatter)
Locked == [Plain EXCEPT !.readable = FALSE]

\* the entrypoint A: plain, unreadable, or referencing the command d.md
NestedMenuA ==
    {Plain, Locked,
     FileWith(<< <<FileRef(<<".claude", Slash, "commands", Slash, "d", ".md">>)>> >>,
              NilFrontmatter)}

\* the subagent x.md: no frontmatter, "skills: k, s", a list [s, y] with
\* "tools: k", or a declaration in a file the parser rejects
NestedMenuX ==
    {Absent, Plain,
     FileWith(<<>>, WithKey("skills", StringValue(<<"k", Comma, Space, "s">>))),
     FileWith(<<>>, [k \in {"skills", "tools"} |->
                       IF k = "skills" THEN ItemsValue(<< <<"s">>, <<"y">> >>)
                       ELSE StringValue(<<"k">>)]),
     [FileWith(<<>>, WithKey("skills", StringValue(<<"k">>)))
         EXCEPT !.parses = FALSE]}

\* the skill s: none, s/SKILL.md or s/skill.md
SkillSDisks ==
    {EmptyMap, [q \in {PathSU} |-> Plain], [q \in {PathSL} |-> Plain]}

NestedProjects ==
    {[q \in DOMAIN sd \cup DOMAIN rest |-> IF q \in DOMAIN sd THEN sd[q] ELSE rest[q]] :
        sd \in SkillSDisks,
        rest \in {DiskOf([q \in {PathA, PathD, PathGP, PathK, PathX} |->
                             IF q = PathA THEN a ELSE IF q = PathD THEN dd
                             ELSE IF q = PathGP THEN gp ELSE IF q = PathK THEN k
                             ELSE x]) :
                     a \in NestedMenuA, dd \in {Absent, Plain, Locked},
                     gp \in {Absent, Plain}, k \in {Absent, Plain, Locked},
                     x \in NestedMenuX}}

InitNested ==
    /\ disk \in NestedProjects
    /\ cfg = Profile(<< <<"A">> >>)
    /\ InitProgram
    /\ resIn = Unset
    /\ resOut = Unset
    /\ fmIn = Unset
    /\ fmOut = Unset
    /\ exIn = Unset
    /\ exOut = NoCall

NextNested ==
    \/ BuildTree_Start
    \/ BuildTree_Entry
    \/ BuildTree_Return
    \/ processFile_Enter
    \/ processFile_Ref
    \/ processFile_Return
    \/ DiscoverNested_Start
    \/ DiscoverNested_Process
    \/ DiscoverNested_Scope
    \/ DiscoverNested_Return

SpecNested == InitNested /\ [][NextNested]_vars

(***************************************************************************)
(* C15, C16: the scopes nested under the main scope and under subagents.   *)
(***************************************************************************)
\* a DiscoverScopes call has returned
Returned == phase = "built" /\ calls >= 1

TheMainScope == {sc \in Range(scopes) : sc.Type = "main"}

\* the children of one kind, by name and entrypoint
KidsOf(sc, type) ==
    {[Name |-> sc.Children[i].Name, Entrypoint |-> sc.Children[i].Entrypoint] :
        i \in {j \in 1..Len(sc.Children) : sc.Children[j].Type = type}}

\* how many children of that kind, name and entrypoint the scope has
KidCount(sc, type, name, entrypoint) ==
    Cardinality({i \in 1..Len(sc.Children) :
                    /\ sc.Children[i].Type = type
                    /\ sc.Children[i].Name = name
                    /\ sc.Children[i].Entrypoint = entrypoint})

\* the skill files on the disk: .claude/skills/<name>.md and
\* .claude/skills/<name>/SKILL.md, the latter in any case
IsSkillFile(f) ==
    \/ Dir(f) = SkillsDir(RootPath) /\ HasSuffix(Base(f), <<".md">>)
    \/ /\ Dir(Dir(f)) = SkillsDir(RootPath)
       /\ Base(f) \in {<<"SKILL", ".md">>, <<"skill", ".md">>}

SkillNameOf(f) ==
    IF Dir(f) = SkillsDir(RootPath) THEN TrimSuffix(Base(f), <<".md">>)
    ELSE Base(Dir(f))

\* the skill scopes that were discovered: one for each skill file read
DiscoveredSkills ==
    {[Name |-> SkillNameOf(f), Entrypoint |-> f] :
        f \in {g \in DOMAIN disk : IsSkillFile(g) /\ CanRead(disk, g)}}

\* the names the skills: line of the subagent's entrypoint declares
DeclaredBy(sc) ==
    IF nodes[sc.Entrypoint].Parsed = "parsed"
    THEN Range(extractSkillsFromFrontmatter(disk[sc.Entrypoint].frontmatter))
    ELSE {}

NoNestedAtTopLevel ==
    \A i \in 1..Len(scopes) : scopes[i].Type \in {"main", "subagent"}

\* C15: the skill children of a subagent scope are exactly the discovered
\* skill scopes whose name its frontmatter declares (a declared name
\* without a discovered skill adds none), and every discovered skill scope
\* is a child of the main scope, never a top-level scope.
C15_SkillChildren ==
    Returned =>
        /\ \A sc \in Range(scopes) :
              sc.Type = "subagent" =>
                 /\ Range(sc.DeclaredSkills) = DeclaredBy(sc)
                 /\ KidsOf(sc, "skill") =
                        {k \in DiscoveredSkills : k.Name \in DeclaredBy(sc)}
                 /\ \A i \in 1..Len(sc.Children) :
                       /\ sc.Children[i].Type = "skill"
                       /\ \E m \in TheMainScope :
                             sc.Children[i] \in Range(m.Children)
        /\ DiscoveredSkills # {} => TheMainScope # {}
        /\ \A m \in TheMainScope : KidsOf(m, "skill") = DiscoveredSkills
        /\ NoNestedAtTopLevel

\* x.md declares s and y; k.md and s/SKILL.md are skills: the subagent has
\* the child s alone, the main scope has k and s
C15_Witness ==
    /\ Returned
    /\ {PathK, PathSU} \subseteq DOMAIN disk
    /\ \E i \in 1..Len(scopes) :
          /\ scopes[i].Type = "subagent"
          /\ scopes[i].Entrypoint = PathX
          /\ scopes[i].DeclaredSkills = << <<"s">>, <<"y">> >>
          /\ KidsOf(scopes[i], "skill") = {[Name |-> <<"s">>, Entrypoint |-> PathSU]}
    /\ \E m \in TheMainScope :
          KidsOf(m, "skill") = {[Name |-> <<"k">>, Entrypoint |-> PathK],
                                [Name |-> <<"s">>, Entrypoint |-> PathSU]}

\* the .md files below .claude/commands, at any depth
CommandFiles ==
    {f \in DOMAIN disk :
        /\ CommandsDir(RootPath) \in Ancestors(f)
        /\ HasSuffix(Base(f), <<".md">>)}

\* the file's path relative to the commands directory, without extension
RelativeName(f) ==
    LET rel == SubSeq(f, Len(CommandsDir(RootPath)) + 2, Len(f))
    IN SubSeq(rel, 1, Len(rel) - 1)

\* the main scope has exactly one command scope for the file
OneCommandScope(f) ==
    /\ TheMainScope # {}
    /\ \A m \in TheMainScope : KidCount(m, "command", RelativeName(f), f) = 1

NoCommandsDirNoCommands ==
    ~IsDirOn(disk, CommandsDir(RootPath)) =>
        \A m \in TheMainScope : KidsOf(m, "command") = {}

\* the statement as the claim makes it
C16_Original ==
    Returned =>
        /\ \A f \in CommandFiles : OneCommandScope(f)
        /\ NoNestedAtTopLevel
        /\ NoCommandsDirNoCommands

\* C16 (amended): for every .md file at any depth under .claude/commands
\* that can be read, the main scope has exactly one command scope named by
\* the file's path relative to the commands directory without extension,
\* with the absolute file path as entrypoint; a file that cannot be read
\* gets no scope; command scopes are never top-level scopes, and without a
\* commands directory the main scope has no command children.
C16_CommandScopes ==
    Returned =>
        /\ \A f \in CommandFiles : CanRead(disk, f) => OneCommandScope(f)
        /\ \A m \in TheMainScope :
              KidsOf(m, "command") =
                  {[Name |-> RelativeName(f), Entrypoint |-> f] :
                      f \in {g \in CommandFiles : CanRead(disk, g)}}
        /\ \A f \in CommandFiles : IsAbs(f)
        /\ NoNestedAtTopLevel
        /\ NoCommandsDirNoCommands

\* d.md and g/p.md are both read: the main scope has the command scopes
\* "d" and "g/p"
C16_Witness ==
    /\ Returned
    /\ \E m \in TheMainScope :
          KidsOf(m, "command") =
              {[Name |-> <<"d">>, Entrypoint |-> PathD],
               [Name |-> <<"g", Slash, "p">>, Entrypoint |-> PathGP]}

(***************************************************************************)
(* C28: parent, depth and children agree.                                  *)
(***************************************************************************)
\* the node of q lies one level below its parent and among its children
BelowAndAmong(q) ==
    IF nodes[q].Parent = NilParent THEN nodes[q].Depth = 1
    ELSE IF nodes[q].Parent = RootParent
    THEN /\ nodes[q].Depth = root.Depth + 1
         /\ q \in Range(root.Children)
    ELSE /\ nodes[q].Parent \in DOMAIN nodes
         /\ nodes[q].Depth = nodes[nodes[q].Parent].Depth + 1
         /\ q \in Range(nodes[nodes[q].Parent].Children)

\* C28: after BuildTree and after every DiscoverScopes call each node with
\* a parent has the parent's depth plus one and is among the parent's
\* children, and each node without a parent has depth 1.
C28_ParentDepthChildren ==
    phase = "built" => \A q \in DOMAIN nodes : BelowAndAmong(q)

\* a tree with a child of the root, a child of a file and an entrypoint
\* that DiscoverScopes processed on demand
C28_Witness ==
    /\ phase = "built"
    /\ calls >= 1
    /\ \E q \in DOMAIN nodes : nodes[q].Parent = NilParent
    /\ \E q \in DOMAIN nodes : nodes[q].Parent = RootParent
    /\ \E q \in DOMAIN nodes : nodes[q].Parent \in DOMAIN nodes /\ nodes[q].Depth >= 3

(***************************************************************************)
(* The projects with several subagent files: x.md, y.md, x/CLAUDE.md and   *)
(* s/z.md below .claude/agents; x.md may name another subagent.            *)
(***************************************************************************)
PathXC == <<Slash, "r", Slash, ".claude", Slash, "agents", Slash, "x", Slash,
            "CLAUDE", ".md">>
PathSZ == <<Slash, "r", Slash, ".claude", Slash, "agents", Slash, "s", Slash,
            "z", ".md">>

AgentsMenuA == {File(<<>>), File(<< <<AgentRef(<<"x">>)>> >>)}

AgentsMenuX ==
    {Absent,
     File(<<>>),
     File(<< <<AgentRef(<<".", Slash, "y">>)>> >>),
     File(<< <<AgentRef(<<"s", Slash, "z">>)>> >>)}

AgentsProjects ==
    {DiskOf([q \in {PathA, PathX, PathY, PathXC, PathSZ} |->
                IF q = PathA THEN a ELSE IF q = PathX THEN x
                ELSE IF q = PathY THEN y ELSE IF q = PathXC THEN xc ELSE sz]) :
        a \in AgentsMenuA, x \in AgentsMenuX, y \in {Absent, File(<<>>)},
        xc \in {Absent, File(<<>>)}, sz \in {Absent, File(<<>>)}}

InitAgents ==
    /\ disk \in AgentsProjects
    /\ cfg = Profile(<< <<"A">> >>)
    /\ InitProgram
    /\ resIn = Unset
    /\ resOut = Unset
    /\ fmIn = Unset
    /\ fmOut = Unset
    /\ exIn = Unset
    /\ exOut = NoCall

\* the program on a project that nobody changes
SpecAgents == InitAgents /\ [][Step]_vars

(***************************************************************************)
(* C29: the names of the subagent scopes.                                  *)
(***************************************************************************)
\* C29: no two subagent scopes that one DiscoverScopes call returns have
\* the same name, whatever lies in .claude/agents.
C29_DistinctSubagentNames ==
    Returned =>
        \A i, j \in 1..Len(scopes) :
            (/\ scopes[i].Type = "subagent"
             /\ scopes[j].Type = "subagent"
             /\ scopes[i].Name = scopes[j].Name) => i = j

(***************************************************************************)
(* C30: a second DiscoverScopes call.                                      *)
(***************************************************************************)
\* the scopes by kind, name, entrypoint and node paths
ScopeSet(scs) ==
    {[Type |-> scs[i].Type, Name |-> scs[i].Name,
      Entrypoint |-> scs[i].Entrypoint, FilePaths |-> scs[i].FilePaths] :
        i \in 1..Len(scs)}

\* a call after the first returns the scopes the call before it returned
SameScopeSetAgain ==
    (phase = "discovering" /\ phase' = "built" /\ calls >= 1 /\ deletes = 0)
        => ScopeSet(scopes') = ScopeSet(scopes)

\* a call after the first adds no node
NoNodeAddedAgain ==
    (phase = "discovering" /\ calls >= 1 /\ deletes = 0)
        => DOMAIN nodes' = DOMAIN nodes

\* C30: on an unchanged project a second DiscoverScopes call on the same
\* tree returns the same set of scopes (kind, name, entrypoint, node paths)
\* as the first and adds no node to the node map.
C30_DiscoverScopesIdempotent ==
    [][SameScopeSetAgain /\ NoNodeAddedAgain]_vars

(***************************************************************************)
(* The projects with a short and a long way to one file: F1 references F2  *)
(* and Fj, and F2 -> F3 -> F4 -> F5 -> F6.                                 *)
(***************************************************************************)
ShortcutTargets == {3, 4, 5, 6}

\* F1 names F2 first, then Fj (longFirst), or the other way round
ShortcutDisk(j, longFirst) ==
    [q \in {PathF(i) : i \in 1..6} |->
        IF q = PathF(1)
        THEN IF longFirst
             THEN File(<< <<FileRef(<<FName[2]>>)>>, <<FileRef(<<FName[j]>>)>> >>)
             ELSE File(<< <<FileRef(<<FName[j]>>)>>, <<FileRef(<<FName[2]>>)>> >>)
        ELSE IF q = PathF(6) THEN File(<<>>)
        ELSE File(<< <<FileRef(<<FName[(CHOOSE i \in 2..5 : q = PathF(i)) + 1]>>)>> >>)]

ShortcutProjects ==
    {ShortcutDisk(j, longFirst) : j \in ShortcutTargets, longFirst \in BOOLEAN}

ShortcutEntrypoints ==
    {<< <<FName[1]>> >>, << <<FName[1]>>, <<FName[5]>> >>,
     << <<FName[5]>>, <<FName[1]>> >>}

InitShortcut ==
    /\ disk \in ShortcutProjects
    /\ cfg \in {Profile(e) : e \in ShortcutEntrypoints}
    /\ InitProgram
    /\ resIn = Unset
    /\ resOut = Unset
    /\ fmIn = Unset
    /\ fmOut = Unset
    /\ exIn = Unset
    /\ exOut = NoCall

\* BuildTree alone
NextBuild ==
    \/ BuildTree_Start
    \/ BuildTree_Entry
    \/ BuildTree_Return
    \/ processFile_Enter
    \/ processFile_Ref
    \/ processFile_Return

SpecShortcut == InitShortcut /\ [][NextBuild]_vars

(***************************************************************************)
(* C25: the files within reach of the entrypoints.                         *)
(***************************************************************************)
\* the files that the file references of p resolve to
FileTargets(p) ==
    LET refs == extractReferences(disk[p].content, p, cfg)
    IN {resolveFilePath(disk, RootPath, p, refs[i].Value) :
           i \in {k \in 1..Len(refs) : refs[k].Type = "file"}}

\* the readable files a chain of at most k file references leads to from
\* an entrypoint
RECURSIVE WithinReach(_)
WithinReach(k) ==
    IF k = 0
    THEN {e \in Range(GlobAll(disk, RootPath, cfg.Entrypoints)) : CanRead(disk, e)}
    ELSE WithinReach(k - 1)
         \cup {t \in UNION {FileTargets(p) : p \in WithinReach(k - 1)} :
                  CanRead(disk, t)}

\* C25: after BuildTree every readable file that a chain of at most 4
\* resolvable file references leads to from an entrypoint is a key of the
\* node map.
C25_WithinReachIsKey ==
    (phase = "built" /\ deletes = 0) => WithinReach(MaxDepth - 1) \subseteq DOMAIN nodes

(***************************************************************************)
(* The broken-refs rule (BrokenRefsRule.Run): it reads the references of   *)
(* every node and looks each file reference up on the disk again.          *)
(***************************************************************************)
\* checkFileRef returns an issue
checkFileRef_SourceOnly(d, ref, rootPath) ==
    LET refPath == TrimPrefix(ref.Value, <<"@">>)
        resolvedPath == IF IsAbs(refPath) THEN refPath
                        ELSE Join(<<Dir(ref.Source.File), refPath>>)
    IN ~Stat(d, resolvedPath)

checkFileRef(d, ref, rootPath) ==
    LET refPath == TrimPrefix(ref.Value, <<"@">>)
        resolvedPath == IF IsAbs(refPath) THEN refPath
                        ELSE Join(<<Dir(ref.Source.File), refPath>>)
    IN ~Stat(d, resolvedPath) /\ ~Stat(d, Join(<<rootPath, refPath>>))

\* the file references of the tree: <<key, index>>
FileRefsOfTree ==
    {qi \in UNION {{<<q, i>> : i \in 1..Len(nodes[q].References)} : q \in DOMAIN nodes} :
        nodes[qi[1]].References[qi[2]].Type = "file"}

\* the references for which BrokenRefsRule.Run returns a file-not-found issue
BrokenRefsRule_Run ==
    {qi \in FileRefsOfTree :
        checkFileRef(disk, nodes[qi[1]].References[qi[2]], RootPath)}

RefAt(qi) == nodes[qi[1]].References[qi[2]]

\* the rule runs on the tree of a project that has not changed since
RuleOnUnchanged == phase = "built" /\ deletes = 0

\* C21 as stated: a file reference is reported exactly when its resolved
\* flag is false.
C21_Original ==
    RuleOnUnchanged =>
        \A qi \in FileRefsOfTree : (qi \in BrokenRefsRule_Run) <=> ~RefAt(qi).Resolved

\* C21: on an unchanged project no resolved file reference is reported, and
\* an unresolved file reference of a node above the depth bound is reported;
\* the references of a node at the depth bound are all unresolved, and the
\* rule reports only those whose file does not exist.
C21_BrokenRefsVersusResolved ==
    RuleOnUnchanged =>
        \A qi \in FileRefsOfTree :
            /\ qi \in BrokenRefsRule_Run => ~RefAt(qi).Resolved
            /\ (nodes[qi[1]].Depth < MaxDepth /\ ~RefAt(qi).Resolved)
                  => qi \in BrokenRefsRule_Run
            /\ nodes[qi[1]].Depth >= MaxDepth => ~RefAt(qi).Resolved

\* a tree with a reported reference and a resolved one that is found below
\* the root only, not beside its source file
C21_Witness ==
    /\ RuleOnUnchanged
    /\ BrokenRefsRule_Run # {}
    /\ \E qi \in FileRefsOfTree :
          /\ RefAt(qi).Resolved
          /\ ~Stat(disk, Join(<<Dir(qi[1]), TrimPrefix(RefAt(qi).Value, <<"@">>)>>))

(***************************************************************************)
(* Reference extraction on its own: the contents and profiles it is given. *)
(***************************************************************************)
MaxLines == 11

Word(w) == [re |-> "", val |-> <<w>>, took |-> TRUE]

\* the words a line may carry besides its reference
MarkerWords == {"important", "Should", "note"}

\* a file of MaxLines lines: the reference on line l, "important" on line
\* m1 and the word w on line m2
MarkedContent(l, m1, w, m2) ==
    [n \in 1..MaxLines |->
        (IF n = l THEN <<FileRef(<<"B">>)>> ELSE <<>>)
        \o (IF n = m1 THEN <<Word("important")>> ELSE <<>>)
        \o (IF n = m2 THEN <<Word(w)>> ELSE <<>>)]

MarkedContents ==
    {MarkedContent(l, m1, w, m2) :
        l \in 1..MaxLines, m1 \in 1..MaxLines, w \in MarkerWords, m2 \in 1..MaxLines}

\* (a)|b matched at a: the group took part; matched at b: it did not
OptTook == [re |-> "opt_re", val |-> <<"a">>, took |-> TRUE]
OptNot == [re |-> "opt_re", val |-> <<>>, took |-> FALSE]
\* a match of a pattern without a capture group, and of the one that did
\* not compile
BareMatch == [re |-> "bare_re", val |-> <<>>, took |-> TRUE]
BadMatch == [re |-> "bad_re", val |-> <<"u">>, took |-> TRUE]

PFile == [Regex |-> "file_re", Type |-> "file", compiled |-> TRUE, groups |-> 1]
PBad == [Regex |-> "bad_re", Type |-> "url", compiled |-> FALSE, groups |-> 1]
POpt == [Regex |-> "opt_re", Type |-> "tool", compiled |-> TRUE, groups |-> 1]
PBare == [Regex |-> "bare_re", Type |-> "skill", compiled |-> TRUE, groups |-> 0]

PatternLists ==
    {<<>>, <<PBad, PFile>>, <<PFile, PBad, POpt>>, <<POpt, PFile>>,
     <<PBare, PFile>>}

LineMenu ==
    {<<>>, <<FileRef(<<"B">>)>>, <<OptTook>>, <<OptNot, FileRef(<<"B">>)>>,
     <<BareMatch, BadMatch>>}

MatchContents ==
    {<<>>} \cup {<<l1>> : l1 \in LineMenu}
           \cup {<<l1, l2>> : l1 \in LineMenu, l2 \in LineMenu}

InitExtract ==
    /\ disk = EmptyMap
    /\ cfg = Profile(<<>>)
    /\ InitProgram
    /\ resIn = Unset
    /\ resOut = Unset
    /\ fmIn = Unset
    /\ fmOut = Unset
    /\ exIn \in {[content |-> c, patterns |-> Patterns] : c \in MarkedContents}
                \cup {[content |-> c, patterns |-> ps] :
                         c \in MatchContents, ps \in PatternLists}
    /\ exOut = NoCall

\* the profile of the extraction at hand
ExtractConfig == [cfg EXCEPT !.ReferencePatterns = exIn.patterns]

ExtractReferences ==
    /\ exOut = NoCall
    /\ exOut' = extractReferencesCall(exIn.content, PathA, ExtractConfig)
    /\ UNCHANGED <<disk, cfg, phase, err, root, nodes, entries, stack, created,
                   pending, subScopes, scopes, calls, deletes, resIn, resOut,
                   mainChildren, fmIn, fmOut, exIn, issues, walk>>

SpecExtract == InitExtract /\ [][ExtractReferences]_vars

(***************************************************************************)
(* C23: the priority of a reference.                                       *)
(***************************************************************************)
\* the marker occurs, in whatever case, on one of the lines L-5 .. L+5 that
\* the file has (L counted from 1)
Present(marker, lines, L) ==
    \E n \in 1..Len(lines) :
        /\ L - 5 <= n
        /\ n <= L + 5
        /\ Contains(ToUpper(LineText(lines[n])), ToUpper(marker))

PresentCount(markers, lines, L) ==
    Cardinality({i \in 1..Len(markers) : Present(markers[i], lines, L)})

\* C23: the priority of a reference matched on line L is 3 x the number of
\* high-priority markers present + 2 x the medium ones + 1 x the low ones,
\* a marker being present if it occurs on a line from L-5 to L+5.
C23_PriorityOfWindow ==
    (exOut # NoCall /\ exOut.outcome = "returned") =>
        \A i \in 1..Len(exOut.refs) :
            exOut.refs[i].Priority =
                3 * PresentCount(cfg.Markers.HighPriority, exIn.content,
                                 exOut.refs[i].Source.Line)
                + 2 * PresentCount(cfg.Markers.MediumPriority, exIn.content,
                                   exOut.refs[i].Source.Line)
                + PresentCount(cfg.Markers.LowPriority, exIn.content,
                               exOut.refs[i].Source.Line)

(***************************************************************************)
(* C24: extraction has no failure outcome.                                 *)
(***************************************************************************)
\* the matches that count: of a compiled pattern, with a capture group that
\* took part
Counted(content, patterns) ==
    {<<j, n, k>> \in (1..Len(patterns)) \X (1..Len(content)) \X (1..2) :
        /\ k <= Len(content[n])
        /\ patterns[j].compiled
        /\ patterns[j].groups >= 1
        /\ content[n][k].re = patterns[j].Regex
        /\ content[n][k].took}

\* C24: extraction always returns a list; a pattern that did not compile
\* contributes nothing and the other patterns are still applied; a match
\* whose capture group did not take part contributes nothing.
C24_ExtractionNeverFails ==
    exOut # NoCall =>
        /\ exOut.outcome = "returned"
        /\ Len(exOut.refs) = Cardinality(Counted(exIn.content, exIn.patterns))
        /\ \A jnk \in Counted(exIn.content, exIn.patterns) :
              \E i \in 1..Len(exOut.refs) :
                  /\ exOut.refs[i].Source.Line = jnk[2]
                  /\ exOut.refs[i].Source.Column = jnk[3]
                  /\ exOut.refs[i].Type = ParseRefType(exIn.patterns[jnk[1]].Type)

(***************************************************************************)
(* The circular-refs rule (CircularRefsRule.Run).  The DFS keeps visited,  *)
(* recStack, path and issues across the calls of detectCycle; ret is what  *)
(* the call returns.                                                       *)
(***************************************************************************)
\* the adjacency list: the nodes that have children
graph == [q \in {q \in DOMAIN nodes : nodes[q].Children # <<>>} |-> nodes[q].Children]

Neighbors(node) == IF node \in DOMAIN graph THEN graph[node] ELSE <<>>

\* a slip: no neighbor is ever found on the recursion stack
OnRecStack_Never(st, neighbor) == FALSE

\* recStack[neighbor]
OnRecStack(st, neighbor) == neighbor \in st.recStack

\* the issue for the cycle closed at neighbor: path[cycleStart:] + neighbor
FoundCycle(st, neighbor) ==
    LET at == {i \in 1..Len(st.path) : st.path[i] = neighbor}
    IN IF at = {} THEN st.issues
       ELSE LET cycleStart == CHOOSE i \in at : \A j \in at : i <= j
            IN Append(st.issues,
                      [File |-> neighbor,
                       cycle |-> Append(SubSeq(st.path, cycleStart, Len(st.path)),
                                        neighbor)])

RECURSIVE detectCycle(_, _)
RECURSIVE NeighborLoop(_, _, _)

\* the loop over graph[node], from the i-th neighbor on
NeighborLoop(node, i, st) ==
    IF i > Len(Neighbors(node))
    THEN [st EXCEPT !.path = SubSeq(st.path, 1, Len(st.path) - 1),
                    !.recStack = st.recStack \ {node},
                    !.ret = FALSE]
    ELSE LET neighbor == Neighbors(node)[i]
         IN IF neighbor \notin st.visited
            THEN LET after == detectCycle(neighbor, st)
                 IN IF after.ret THEN after ELSE NeighborLoop(node, i + 1, after)
            ELSE IF OnRecStack(st, neighbor)
            THEN [st EXCEPT !.issues = FoundCycle(st, neighbor), !.ret = TRUE]
            ELSE NeighborLoop(node, i + 1, st)

detectCycle(node, st) ==
    NeighborLoop(node, 1,
                 [st EXCEPT !.visited = st.visited \cup {node},
                            !.recStack = st.recStack \cup {node},
                            !.path = Append(st.path, node)])

\* for node := range graph, in the order the map gives
RECURSIVE RangeGraph(_, _, _)
RangeGraph(order, i, st) ==
    IF i > Len(order) THEN st
    ELSE RangeGraph(order, i + 1,
                    IF order[i] \notin st.visited THEN detectCycle(order[i], st)
                    ELSE st)

CircularRefsRule_Run ==
    /\ phase = "built"
    /\ \E order \in Perms(DOMAIN graph) :
          issues' = [ran |-> TRUE,
                     list |-> RangeGraph(order, 1,
                                         [visited |-> {}, recStack |-> {},
                                          path |-> <<>>, issues |-> <<>>,
                                          ret |-> FALSE]).issues]
    /\ UNCHANGED <<disk, cfg, phase, err, root, nodes, entries, stack, created,
                   pending, subScopes, scopes, calls, deletes, resIn, resOut,
                   mainChildren, fmIn, fmOut, exIn, exOut, walk>>

(***************************************************************************)
(* The projects of three files that reference each other.                  *)
(***************************************************************************)
PathC == <<Slash, "r", Slash, "C">>

\* a file may reference any of A, B, C, each on a line of its own
RefLists ==
    {<<>>, << <<"A">> >>, << <<"B">> >>, << <<"C">> >>,
     << <<"A">>, <<"B">> >>, << <<"B">>, <<"C">> >>, << <<"C">>, <<"A">> >>,
     << <<"A">>, <<"B">>, <<"C">> >>}

Referencing(targets) ==
    File([i \in 1..Len(targets) |-> <<FileRef(targets[i])>>])

CycleProjects ==
    {(PathA :> Referencing(a)) @@ (PathB :> Referencing(b)) @@ (PathC :> Referencing(c)) :
        a \in RefLists, b \in RefLists, c \in RefLists}

InitCircular ==
    /\ disk \in CycleProjects
    /\ cfg \in {Profile(e) : e \in EntrypointMenu}
    /\ InitProgram
    /\ resIn = Unset
    /\ resOut = Unset
    /\ fmIn = Unset
    /\ fmOut = Unset
    /\ exIn = Unset
    /\ exOut = NoCall

NextCircular ==
    \/ NextBuild
    \/ CircularRefsRule_Run

SpecCircular == InitCircular /\ [][NextCircular]_vars

(***************************************************************************)
(* C22 and C26: the cycles the rule reports.                               *)
(***************************************************************************)
\* the children links hold a cycle
HasCycle == \E q \in DOMAIN nodes : q \in Descendants(q)

\* C22: CircularRefsRule.Run returns at least one issue when the children
\* links among the nodes hold a cycle and none when they hold none,
\* whatever the order of the node map.
C22_CycleIffIssue ==
    issues.ran => (issues.list # <<>> <=> HasCycle)

\* a rule run on a tree with a cycle and a further file pointing into it
C22_Witness ==
    /\ issues.ran
    /\ issues.list # <<>>
    /\ \E q \in DOMAIN nodes :
          /\ q \notin Descendants(q)
          /\ \E c \in Range(nodes[q].Children) : c \in Descendants(c)

\* the sequence of paths is a cycle of the children links
RealCycle(cycle) ==
    /\ Len(cycle) >= 2
    /\ cycle[1] = cycle[Len(cycle)]
    /\ \A i \in 1..(Len(cycle) - 1) :
          /\ cycle[i] \in DOMAIN nodes
          /\ cycle[i + 1] \in Range(nodes[cycle[i]].Children)

\* C26: every issue CircularRefsRule.Run returns names a real cycle: the
\* first and the last path are equal and each path has the next one among
\* its node's children.
C26_IssuesNameRealCycles ==
    issues.ran => \A i \in 1..Len(issues.list) : RealCycle(issues.list[i].cycle)

(***************************************************************************)
(* Rendering the tree.  Tree.printNode, printFileNode (graph --print) and  *)
(* GraphModel.buildFileNode each call themselves for every child of the    *)
(* node they are given; walk is their call stack, a frame [fn, node, i]    *)
(* being the call of fn on node that is about to handle its i-th child.    *)
(***************************************************************************)
MaxWalk == 4

\* node.Children, of the root or of a node of the map
ChildrenOf(node) == IF node = root.Path THEN root.Children ELSE nodes[node].Children

RenderCall(fn, node) == [fn |-> fn, node |-> node, i |-> 1]

\* Tree.PrintTree: printNode(t.Root, "")
PrintTree ==
    /\ phase = "built"
    /\ walk' = <<RenderCall("printNode", root.Path)>>
    /\ phase' = "rendering"
    /\ UNCHANGED <<disk, cfg, err, root, nodes, entries, stack, created,
                   pending, subScopes, scopes, calls, deletes, resIn, resOut,
                   mainChildren, fmIn, fmOut, exIn, exOut, issues>>

\* the nodes printScope hands to printFileNode: the entrypoint's node of a
\* scope other than main, every node of the main scope
ScopeFileNodes(sc) ==
    IF sc.Type = "main" THEN Range(sc.Nodes)
    ELSE IF sc.Entrypoint \in DOMAIN nodes THEN {sc.Entrypoint}
    ELSE {}

printFileNode_Start ==
    /\ phase = "built"
    /\ \E k \in 1..Len(scopes) : \E node \in ScopeFileNodes(scopes[k]) :
          walk' = <<RenderCall("printFileNode", node)>>
    /\ phase' = "rendering"
    /\ UNCHANGED <<disk, cfg, err, root, nodes, entries, stack, created,
                   pending, subScopes, scopes, calls, deletes, resIn, resOut,
                   mainChildren, fmIn, fmOut, exIn, exOut, issues>>

\* GraphModel.buildNodes: the nodes of every scope, or the root's children
\* when there is no scope
buildFileNode_Start ==
    /\ phase = "built"
    /\ \E node \in (IF Len(scopes) > 0
                    THEN UNION {Range(scopes[k].Nodes) : k \in 1..Len(scopes)}
                    ELSE Range(root.Children)) :
          walk' = <<RenderCall("buildFileNode", node)>>
    /\ phase' = "rendering"
    /\ UNCHANGED <<disk, cfg, err, root, nodes, entries, stack, created,
                   pending, subScopes, scopes, calls, deletes, resIn, resOut,
                   mainChildren, fmIn, fmOut, exIn, exOut, issues>>

\* the call on top reaches its next child and calls itself for it
Render_Child ==
    /\ phase = "rendering"
    /\ Len(walk) < MaxWalk
    /\ LET top == walk[Len(walk)]
       IN /\ top.i <= Len(ChildrenOf(top.node))
          /\ walk' = Append(walk, RenderCall(top.fn, ChildrenOf(top.node)[top.i]))
    /\ UNCHANGED <<disk, cfg, phase, err, root, nodes, entries, stack, created,
                   pending, subScopes, scopes, calls, deletes, resIn, resOut,
                   mainChildren, fmIn, fmOut, exIn, exOut, issues>>

\* the call on top has handled all its children and returns
Render_Return ==
    /\ phase = "rendering"
    /\ LET top == walk[Len(walk)]
           rest == SubSeq(walk, 1, Len(walk) - 1)
       IN /\ top.i > Len(ChildrenOf(top.node))
          /\ walk' = IF rest = <<>> THEN <<>>
                     ELSE [rest EXCEPT ![Len(rest)].i = @ + 1]
          /\ phase' = IF rest = <<>> THEN "built" ELSE "rendering"
    /\ UNCHANGED <<disk, cfg, err, root, nodes, entries, stack, created,
                   pending, subScopes, scopes, calls, deletes, resIn, resOut,
                   mainChildren, fmIn, fmOut, exIn, exOut, issues>>

\* the projects rendered: A, B and the subagent file x.md may reference
\* themselves and each other
RenderMenuA ==
    {File(<<>>), Referencing(<< <<"A">> >>), Referencing(<< <<"B">> >>),
     File(<< <<FileRef(<<"B">>)>>, <<AgentRef(<<"x">>)>> >>)}

RenderMenuB ==
    {Absent, File(<<>>), Referencing(<< <<"A">> >>), Referencing(<< <<"B">> >>)}

RenderMenuX ==
    {Absent, File(<<>>), Referencing(<< <<"A">> >>), Referencing(<<XRef>>)}

RenderProjects ==
    {DiskOf((PathA :> a) @@ (PathB :> b) @@ (PathX :> x)) :
        a \in RenderMenuA, b \in RenderMenuB, x \in RenderMenuX}

InitRender ==
    /\ disk \in RenderProjects
    /\ cfg = Profile(<< <<"A">> >>)
    /\ InitProgram
    /\ resIn = Unset
    /\ resOut = Unset
    /\ fmIn = Unset
    /\ fmOut = Unset
    /\ exIn = Unset
    /\ exOut = NoCall

NextRender ==
    \/ Step
    \/ PrintTree
    \/ printFileNode_Start
    \/ buildFileNode_Start
    \/ Render_Child
    \/ Render_Return

SpecRender == InitRender /\ [][NextRender]_vars

(***************************************************************************)
(* C27: the traversals that render the tree terminate.                     *)
(***************************************************************************)
\* C27: every traversal that renders the tree by recursing over the
\* children links terminates: no call is ever made for a node whose own
\* call is still under way (such a call would repeat itself without end,
\* the calls depending on the node alone).
C27_RenderingTerminates ==
    \A i \in 1..Len(walk) : \A j \in 1..Len(walk) :
        (i < j) => walk[i].node # walk[j].node

====
